---- MODULE Spec2Model ----
(***************************************************************************)
(* GroceryGo calendar-aware meal planning: the day-complexity scoring      *)
(* engine (services/scoringEngine.ts), the complexity tiers                *)
(* (types/calendar.ts), the shelf-life table (data/ingredientShelfLife.ts) *)
(* the grocery-pickup optimizer (services/pickupOptimizer.ts), the week    *)
(* preview page and its server actions (app/week-preview) and the calendar *)
(* fetch (services/calendarService.ts).                                    *)
(*                                                                         *)
(* Time.  A JavaScript Date is an instant; the model counts instants in    *)
(* whole minutes from 2025-02-17T00:00:00Z (a Monday).  The process time   *)
(* zone is a fixed offset tz (minutes east of UTC, no DST change inside    *)
(* the week): local wall clock = instant + tz.                             *)
(*                                                                         *)
(* Numbers.  JavaScript numbers are modelled as exact rationals <<n, d>>   *)
(* (d > 0, lowest terms); Math.round is floor(x + 1/2).                    *)
(***************************************************************************)
EXTENDS Integers, Sequences, FiniteSets, TLC

VARIABLES
    tz,                   \* process time zone: minutes east of UTC
    signals,              \* DayScoreEngine.signals, set once by the constructor
    events,               \* CalendarEvent[] handed to the engine / the signal
    weekStart,            \* the Date handed to scoreWeek / compute
    signalResult,         \* result of a direct TimeBlockSignal.compute call
    weekScores,           \* DayScore[]: result of scoreWeek, input of recommendPickupDay
    eventsB,              \* a second schedule for the same day (comparisons)
    signalResultB,        \* TimeBlockSignal.compute(eventsB, weekStart)
    groceryItems,         \* recommendPickupDay's groceryItems
    perishableMealDates,  \* recommendPickupDay's perishableMealDates
    recommendation,       \* PickupRecommendation, or the thrown error
    pc,                   \* position of the caller
    shelfCategory,        \* getShelfLife's argument
    shelfEntry,           \* getShelfLife's result
    overrides,            \* WeekPreviewClient's overrides: day name -> tier
    weekScoreRow,         \* the row inserted into week_scores, if any
    saveResult,           \* what saveWeekScoresAndGenerate returned
    sources,              \* getConnectedProviders' result: CalendarSource[]
    providerEvents,       \* per source, the events its calendar holds
    tasks,                \* per source, the async task of fetchAllEvents
    settleOrder,          \* the task indexes in the order they settled
    lastFetchedAt,        \* sources whose last_fetched_at was written
    allEvents,            \* what fetchAllEvents returned
    session,              \* the user the browser's auth cookies belong to
    nonceCookie,          \* the browser's calendar_auth_nonce cookie
    issued,               \* how many nonces the initiation route has made
    callbacks,            \* the callback requests sent: in flight or handled
    connections           \* calendar_connections: user_id -> google row

coreVars == <<tz, signals, events, weekStart, signalResult, weekScores, eventsB,
              signalResultB, groceryItems, perishableMealDates, recommendation>>

shelfVars == <<shelfCategory, shelfEntry>>

saveVars == <<overrides, weekScoreRow, saveResult>>

\* the state outside the scoring engine and the pickup optimizer
fetchVars == <<sources, providerEvents, tasks, settleOrder, lastFetchedAt, allEvents>>

oauthVars == <<session, nonceCookie, issued, callbacks, connections>>

auxVars == <<shelfVars, saveVars, fetchVars, oauthVars>>

vars == <<coreVars, pc, auxVars>>

None == "none"

\* no shelf-life lookup is under way
ShelfIdle == shelfCategory = "" /\ shelfEntry = None

\* useState({}): no override; nothing saved
SaveIdle == overrides = <<>> /\ weekScoreRow = None /\ saveResult = None

\* fetchAllEvents is not running
FetchIdle ==
    /\ sources = <<>>
    /\ providerEvents = <<>>
    /\ tasks = <<>>
    /\ settleOrder = <<>>
    /\ lastFetchedAt = {}
    /\ allEvents = None

\* no calendar is being connected
OAuthIdle ==
    /\ session = None
    /\ nonceCookie = None
    /\ issued = 0
    /\ callbacks = <<>>
    /\ connections = <<>>

AuxIdle == ShelfIdle /\ SaveIdle /\ FetchIdle /\ OAuthIdle

-----------------------------------------------------------------------------
(* Exact rational arithmetic for JavaScript numbers.                       *)

Abs(x) == IF x < 0 THEN -x ELSE x

RECURSIVE Gcd(_, _)
Gcd(a, b) == IF b = 0 THEN a ELSE Gcd(b, a % b)

\* n/d in lowest terms with a positive denominator (d # 0).
Rat(n, d) ==
    LET g == Gcd(Abs(n), Abs(d))
        s == IF d < 0 THEN -1 ELSE 1
    IN  <<(s * n) \div g, (s * d) \div g>>

RInt(n) == <<n, 1>>
RAdd(a, b) == Rat(a[1] * b[2] + b[1] * a[2], a[2] * b[2])
RSub(a, b) == Rat(a[1] * b[2] - b[1] * a[2], a[2] * b[2])
RMul(a, b) == Rat(a[1] * b[1], a[2] * b[2])
RDiv(a, b) == Rat(a[1] * b[2], a[2] * b[1])
RLe(a, b) == a[1] * b[2] <= b[1] * a[2]
RLt(a, b) == a[1] * b[2] < b[1] * a[2]
RMin(a, b) == IF RLt(b, a) THEN b ELSE a
RMax(a, b) == IF RLt(a, b) THEN b ELSE a

\* Math.round: the nearest integer, halves rounded towards +infinity.
MathRound(a) == (2 * a[1] + a[2]) \div (2 * a[2])

IntMax(a, b) == IF a < b THEN b ELSE a
IntMin(a, b) == IF b < a THEN b ELSE a

-----------------------------------------------------------------------------
(* types/calendar.ts                                                       *)

ExploratoryMax == 35
StandardMax == 65
QuickMax == 100

\* faulty variant: strict comparisons at the thresholds
tierFromScoreStrict(score) ==
    IF score < ExploratoryMax THEN "exploratory"
    ELSE IF score < StandardMax THEN "standard"
    ELSE "quick"

tierFromScore(score) ==
    IF score <= ExploratoryMax THEN "exploratory"
    ELSE IF score <= StandardMax THEN "standard"
    ELSE "quick"

-----------------------------------------------------------------------------
(* services/scoringEngine.ts: constants                                    *)

DINNER_PREP_START == 17
DINNER_PREP_END == 19
LUNCH_START == 11
LUNCH_END == 13
WAKING_HOURS == 14
BACK_TO_BACK_GAP_MINUTES == 15
MAX_COMMITTED_HOURS_PTS == 40
MAX_BACK_TO_BACK_PTS == 25
MAX_MEAL_CONFLICT_PTS == 20
MAX_FREE_BLOCK_PTS == 15
WakingStartHour == 7
WakingEndHour == 23
DaysPerWeek == 7

MinutesPerHour == 60
MinutesPerDay == 1440

\* a duration in minutes as a number of hours: ms / (1000 * 60 * 60)
Hours(minutes) == Rat(minutes, MinutesPerHour)

\* Date.setHours(h, 0, 0, 0) on a local midnight
SetHours(dayBase, h) == dayBase + h * MinutesPerHour

\* faulty variant: the local calendar date of `date` (getFullYear/getMonth/getDate)
localDayBoundsOfLocalDate(date, zone) ==
    LET localDay == (date + zone) \div MinutesPerDay
        dayStart == localDay * MinutesPerDay - zone
    IN  [dayStart |-> dayStart, dayEnd |-> dayStart + MinutesPerDay - 1]

\* localDayBounds: the UTC calendar date of `date`, taken as a local day.
\* dayEnd is 23:59:59.999 local; instants are whole minutes, so a start is
\* <= dayEnd exactly when it is <= 23:59.
localDayBounds(date, zone) ==
    LET utcDay == date \div MinutesPerDay
        dayStart == utcDay * MinutesPerDay - zone
    IN  [dayStart |-> dayStart, dayEnd |-> dayStart + MinutesPerDay - 1]

\* faulty variant: the day runs from UTC midnight to UTC midnight
eventsOnDateUTC(evs, date, zone) ==
    LET dayStart == (date \div MinutesPerDay) * MinutesPerDay
        OnDay(e) == e.startTime <= dayStart + MinutesPerDay - 1 /\ e.endTime >= dayStart
    IN  SelectSeq(evs, OnDay)

eventsOnDate(evs, date, zone) ==
    LET b == localDayBounds(date, zone)
        OnDay(e) == e.startTime <= b.dayEnd /\ e.endTime >= b.dayStart
    IN  SelectSeq(evs, OnDay)

hoursOverlap(aStart, aEnd, bStart, bEnd) ==
    LET overlapStart == IF aStart > bStart THEN aStart ELSE bStart
        overlapEnd == IF aEnd < bEnd THEN aEnd ELSE bEnd
        diff == overlapEnd - overlapStart
    IN  IF diff > 0 THEN Hours(diff) ELSE RInt(0)

\* [...dayEvents].sort((a, b) => a.startTime - b.startTime): stable.
RECURSIVE InsertByStart(_, _)
InsertByStart(sorted, e) ==
    IF sorted = <<>> THEN <<e>>
    ELSE IF sorted[Len(sorted)].startTime <= e.startTime THEN Append(sorted, e)
    ELSE Append(InsertByStart(SubSeq(sorted, 1, Len(sorted) - 1), e),
                sorted[Len(sorted)])

RECURSIVE SortByStart(_)
SortByStart(evs) ==
    IF evs = <<>> THEN <<>>
    ELSE InsertByStart(SortByStart(SubSeq(evs, 1, Len(evs) - 1)), evs[Len(evs)])

RECURSIVE SumSeq(_)
SumSeq(s) == IF s = <<>> THEN RInt(0) ELSE RAdd(SumSeq(Tail(s)), Head(s))

RECURSIVE MaxSeq(_)
MaxSeq(s) == IF Len(s) = 1 THEN s[1] ELSE RMax(s[1], MaxSeq(Tail(s)))

-----------------------------------------------------------------------------
(* services/scoringEngine.ts: TimeBlockSignal                              *)

\* sum of (endTime - startTime) over the day's events, in hours
totalCommittedHoursOf(sorted) ==
    SumSeq([i \in 1..Len(sorted) |->
              Hours(sorted[i].endTime - sorted[i].startTime)])

\* faulty variant: a gap of exactly 15 minutes is not counted
backToBackCountStrict(sorted) ==
    Cardinality({i \in 1..(Len(sorted) - 1) :
        sorted[i + 1].startTime - sorted[i].endTime
            < BACK_TO_BACK_GAP_MINUTES})

\* consecutive pairs (start-time order) whose gap is at most 15 minutes
backToBackCountOf(sorted) ==
    Cardinality({i \in 1..(Len(sorted) - 1) :
        sorted[i + 1].startTime - sorted[i].endTime
            <= BACK_TO_BACK_GAP_MINUTES})

\* faulty variant: the overlap is assigned, not added: the last event's only
windowOverlapHoursOfLast(sorted, wStart, wEnd) ==
    IF Len(sorted) = 0 THEN RInt(0)
    ELSE hoursOverlap(sorted[Len(sorted)].startTime, sorted[Len(sorted)].endTime,
                      wStart, wEnd)

windowOverlapHours(sorted, wStart, wEnd) ==
    SumSeq([i \in 1..Len(sorted) |->
              hoursOverlap(sorted[i].startTime, sorted[i].endTime, wStart, wEnd)])

\* the cursor walk over the waking window: <<cursor, freeBlocks>> after the
\* first k events
RECURSIVE FreeBlockWalk(_, _, _, _)
FreeBlockWalk(sorted, k, wakingStart, wakingEnd) ==
    IF k = 0 THEN [cursor |-> wakingStart, freeBlocks |-> <<>>]
    ELSE LET prev == FreeBlockWalk(sorted, k - 1, wakingStart, wakingEnd)
             e == sorted[k]
             eventStart == IntMax(e.startTime, wakingStart)
         IN  [cursor |-> IntMax(prev.cursor, IntMin(e.endTime, wakingEnd)),
              freeBlocks |->
                  IF eventStart > prev.cursor
                  THEN Append(prev.freeBlocks, Hours(eventStart - prev.cursor))
                  ELSE prev.freeBlocks]

freeBlocksOf(sorted, wakingStart, wakingEnd) ==
    LET walk == FreeBlockWalk(sorted, Len(sorted), wakingStart, wakingEnd)
    IN  IF walk.cursor < wakingEnd
        THEN Append(walk.freeBlocks, Hours(wakingEnd - walk.cursor))
        ELSE walk.freeBlocks

\* faulty variant: the free block of a free day is the 07:00-23:00 window
FreeDayResultWindow ==
    [score |-> 0,
     reasoning |-> <<"Completely free day">>,
     rawData |-> [totalCommittedHours |-> RInt(0),
                  largestFreeBlockHours |-> RInt(WakingEndHour - WakingStartHour),
                  backToBackCount |-> 0]]

FreeDayResult ==
    [score |-> 0,
     reasoning |-> <<"Completely free day">>,
     rawData |-> [totalCommittedHours |-> RInt(0),
                  largestFreeBlockHours |-> RInt(WAKING_HOURS),
                  backToBackCount |-> 0]]

\* faulty variant: the hours are not divided by the waking hours
committedPtsOfPerHour(totalCommittedHours) ==
    RMin(RInt(MAX_COMMITTED_HOURS_PTS),
         RMul(totalCommittedHours, RInt(MAX_COMMITTED_HOURS_PTS)))

\* faulty variant: the committed-hours points are not capped
committedPtsOfUncapped(totalCommittedHours) ==
    RMul(RDiv(totalCommittedHours, RInt(WAKING_HOURS)),
         RInt(MAX_COMMITTED_HOURS_PTS))

committedPtsOf(totalCommittedHours) ==
    RMin(RInt(MAX_COMMITTED_HOURS_PTS),
         RMul(RDiv(totalCommittedHours, RInt(WAKING_HOURS)),
              RInt(MAX_COMMITTED_HOURS_PTS)))

b2bPtsOf(backToBackCount, n) ==
    LET maxPossibleB2B == IntMax(n - 1, 1)
    IN  RMul(Rat(backToBackCount, maxPossibleB2B), RInt(MAX_BACK_TO_BACK_PTS))

\* faulty variant: the 2x weight is given to lunch, not to dinner prep
mealPtsOfLunchHeavy(dinnerOverlapHours, lunchOverlapHours) ==
    LET dinnerConflictRatio ==
            RMin(RDiv(dinnerOverlapHours, RInt(DINNER_PREP_END - DINNER_PREP_START)),
                 RInt(1))
        lunchConflictRatio ==
            RMin(RDiv(lunchOverlapHours, RInt(LUNCH_END - LUNCH_START)), RInt(1))
    IN  RMul(RDiv(RAdd(dinnerConflictRatio, RMul(lunchConflictRatio, RInt(2))),
                  RInt(3)),
             RInt(MAX_MEAL_CONFLICT_PTS))

mealPtsOf(dinnerOverlapHours, lunchOverlapHours) ==
    LET dinnerWindowSize == DINNER_PREP_END - DINNER_PREP_START
        lunchWindowSize == LUNCH_END - LUNCH_START
        dinnerConflictRatio ==
            RMin(RDiv(dinnerOverlapHours, RInt(dinnerWindowSize)), RInt(1))
        lunchConflictRatio ==
            RMin(RDiv(lunchOverlapHours, RInt(lunchWindowSize)), RInt(1))
    IN  RMul(RDiv(RAdd(RMul(dinnerConflictRatio, RInt(2)), lunchConflictRatio),
                  RInt(3)),
             RInt(MAX_MEAL_CONFLICT_PTS))

\* faulty variant: not inverted, a larger free block gives more points
freeBlockPtsOfNotInverted(largestFreeBlockHours) ==
    RMul(RInt(MAX_FREE_BLOCK_PTS),
         RMin(RDiv(largestFreeBlockHours, RInt(WAKING_HOURS)), RInt(1)))

freeBlockPtsOf(largestFreeBlockHours) ==
    RMul(RInt(MAX_FREE_BLOCK_PTS),
         RSub(RInt(1),
              RMin(RDiv(largestFreeBlockHours, RInt(WAKING_HOURS)), RInt(1))))

\* faulty variant: only the upper clamp, Math.round(Math.min(100, rawScore))
finalSignalScoreNoFloor(rawScore) == MathRound(RMin(RInt(100), rawScore))

\* Math.round(Math.min(100, Math.max(0, rawScore)))
finalSignalScore(rawScore) ==
    MathRound(RMin(RInt(100), RMax(RInt(0), rawScore)))

\* TimeBlockSignal.compute(events, date) in a process whose zone is `zone`
TimeBlockCompute(evs, date, zone) ==
    LET dayEvents == eventsOnDate(evs, date, zone)
    IN  IF Len(dayEvents) = 0 THEN FreeDayResult
        ELSE
        LET sorted == SortByStart(dayEvents)
            totalCommittedHours == totalCommittedHoursOf(sorted)
            committedPts == committedPtsOf(totalCommittedHours)
            backToBackCount == backToBackCountOf(sorted)
            b2bPts == b2bPtsOf(backToBackCount, Len(sorted))
            dayBase == localDayBounds(date, zone).dayStart
            dinnerOverlapHours ==
                windowOverlapHours(sorted, SetHours(dayBase, DINNER_PREP_START),
                                   SetHours(dayBase, DINNER_PREP_END))
            lunchOverlapHours ==
                windowOverlapHours(sorted, SetHours(dayBase, LUNCH_START),
                                   SetHours(dayBase, LUNCH_END))
            mealPts == mealPtsOf(dinnerOverlapHours, lunchOverlapHours)
            freeBlocks == freeBlocksOf(sorted, SetHours(dayBase, WakingStartHour),
                                       SetHours(dayBase, WakingEndHour))
            largestFreeBlockHours ==
                IF Len(freeBlocks) > 0 THEN MaxSeq(freeBlocks) ELSE RInt(0)
            freeBlockPts == freeBlockPtsOf(largestFreeBlockHours)
            rawScore == RAdd(RAdd(RAdd(committedPts, b2bPts), mealPts), freeBlockPts)
        IN  [score |-> finalSignalScore(rawScore),
             reasoning |->
                 <<"h committed">>
                 \o (IF backToBackCount > 0 THEN <<"back-to-back">> ELSE <<>>)
                 \o (IF RLt(RInt(0), dinnerOverlapHours)
                     THEN <<"dinner prep conflict">> ELSE <<>>)
                 \o (IF RLt(RInt(0), lunchOverlapHours)
                     THEN <<"lunch conflict">> ELSE <<>>)
                 \o <<"largest free block">>,
             rawData |-> [totalCommittedHours |-> totalCommittedHours,
                          largestFreeBlockHours |-> largestFreeBlockHours,
                          backToBackCount |-> backToBackCount,
                          dinnerOverlapHours |-> dinnerOverlapHours,
                          lunchOverlapHours |-> lunchOverlapHours,
                          committedPts |-> committedPts,
                          b2bPts |-> b2bPts,
                          mealPts |-> mealPts,
                          freeBlockPts |-> freeBlockPts]]

-----------------------------------------------------------------------------
(* services/scoringEngine.ts: DayScoreEngine                               *)

\* A configured signal: the shipped TimeBlockSignal (weight 1), or any other
\* ScoreSignal implementation, of which the engine sees a weight and the
\* score its compute returns.
TimeBlockSignal == [name |-> "time-block", weight |-> 1]

DefaultSignals == <<TimeBlockSignal>>

signalCompute(signal, evs, date, zone) ==
    IF signal.name = "time-block" THEN TimeBlockCompute(evs, date, zone)
    ELSE [score |-> signal.score, reasoning |-> <<signal.name>>, rawData |-> <<>>]

\* the body of scoreWeek's loop for the day `date`
scoreDay(sigs, evs, date, zone) ==
    LET signalResults ==
            [k \in 1..Len(sigs) |-> signalCompute(sigs[k], evs, date, zone)]
        totalWeightedScore ==
            SumSeq([k \in 1..Len(sigs) |->
                      RInt(signalResults[k].score * sigs[k].weight)])
        totalWeight == SumSeq([k \in 1..Len(sigs) |-> RInt(sigs[k].weight)])
        finalScore ==
            IF RLt(RInt(0), totalWeight)
            THEN MathRound(RDiv(totalWeightedScore, totalWeight))
            ELSE 0
    IN  [date |-> date,
         finalScore |-> finalScore,
         tier |-> tierFromScore(finalScore),
         signalBreakdown |-> signalResults]

\* new Date(weekStart); date.setDate(date.getDate() + i): the same local wall
\* clock i calendar days later
addDays(date, i) == date + i * MinutesPerDay

\* faulty variant: the loop runs i = 1..7
scoreWeekFromOne(sigs, evs, start, zone) ==
    [d \in 1..DaysPerWeek |-> scoreDay(sigs, evs, addDays(start, d), zone)]

scoreWeek(sigs, evs, start, zone) ==
    [d \in 1..DaysPerWeek |-> scoreDay(sigs, evs, addDays(start, d - 1), zone)]

-----------------------------------------------------------------------------
(* data/ingredientShelfLife.ts                                             *)

SL(c, lo, hi) == [category |-> c, minDays |-> lo, maxDays |-> hi]

SHELF_LIFE ==
    [k \in {"Fresh Herbs", "Berries"} |-> SL("short", 1, 3)]
    @@ [k \in {"Seafood", "Fish"} |-> SL("short", 1, 2)]
    @@ [k \in {"Leafy Greens"} |-> SL("short", 2, 4)]
    @@ [k \in {"Fresh Produce", "Produce", "Vegetables"} |-> SL("medium", 4, 6)]
    @@ [k \in {"Fruits", "Deli", "Bakery", "Bread"} |-> SL("medium", 3, 5)]
    @@ [k \in {"Dairy"} |-> SL("medium", 5, 7)]
    @@ [k \in {"Eggs"} |-> SL("medium", 7, 14)]
    @@ [k \in {"Poultry"} |-> SL("medium", 1, 3)]
    @@ [k \in {"Meat"} |-> SL("medium", 2, 4)]
    @@ [k \in {"Pantry", "Canned Goods", "Pasta", "Rice", "Baking"}
            |-> SL("long", 30, 365)]
    @@ [k \in {"Grains", "Condiments", "Oils", "Frozen"} |-> SL("long", 30, 180)]
    @@ [k \in {"Spices"} |-> SL("long", 90, 365)]
    @@ [k \in {"Snacks", "Beverages"} |-> SL("long", 14, 90)]
    @@ [k \in {"Nuts"} |-> SL("long", 14, 60)]

DEFAULT_SHELF_LIFE == SL("medium", 4, 6)

\* SHELF_LIFE is an object literal: a property read that finds no own key
\* goes on to Object.prototype, whose members are functions (and, for
\* __proto__, the prototype object itself)
ObjectPrototypeMembers ==
    {"constructor", "toString", "toLocaleString", "valueOf", "hasOwnProperty",
     "isPrototypeOf", "propertyIsEnumerable", "__proto__", "__defineGetter__",
     "__defineSetter__", "__lookupGetter__", "__lookupSetter__"}

\* SHELF_LIFE[category] ?? DEFAULT_SHELF_LIFE: the read is undefined, and the
\* default applies, only when neither the table nor its prototype has the
\* property; an inherited member is returned as it is
getShelfLife(category) ==
    IF category \in DOMAIN SHELF_LIFE THEN SHELF_LIFE[category]
    ELSE IF category \in ObjectPrototypeMembers THEN [inherited |-> category]
    ELSE DEFAULT_SHELF_LIFE

-----------------------------------------------------------------------------
(* services/pickupOptimizer.ts                                             *)

CALENDAR_WEIGHT == Rat(6, 10)
FRESHNESS_WEIGHT == Rat(4, 10)
NeutralFreshness == 50

\* the score one perishable meal date gives a pickup date
mealFreshness(pickupDate, meal) ==
    LET shelfLife == getShelfLife(meal.category)
        gapDays == Rat(meal.plannedDate - pickupDate, MinutesPerDay)
        maxDays == RInt(shelfLife.maxDays)
    IN  IF RLt(gapDays, RInt(0)) THEN RInt(0)
        ELSE IF RLe(gapDays, maxDays)
        THEN RMax(RInt(0),
                  RSub(RInt(100), RMul(RDiv(gapDays, maxDays), RInt(50))))
        ELSE LET overshoot == RSub(gapDays, maxDays)
                 penalty == RMin(RInt(100), RMul(overshoot, RInt(20)))
             IN  RMax(RInt(0), RSub(RInt(50), penalty))

computeFreshnessScore(pickupDate, items, meals) ==
    IF Len(meals) = 0 THEN RInt(NeutralFreshness)
    ELSE RDiv(SumSeq([k \in 1..Len(meals) |-> mealFreshness(pickupDate, meals[k])]),
              RInt(Len(meals)))

\* scored.sort((a, b) => b.combined - a.combined): stable, descending
RECURSIVE InsertByCombined(_, _)
InsertByCombined(sorted, c) ==
    IF sorted = <<>> THEN <<c>>
    ELSE IF RLe(c.combined, sorted[Len(sorted)].combined) THEN Append(sorted, c)
    ELSE Append(InsertByCombined(SubSeq(sorted, 1, Len(sorted) - 1), c),
                sorted[Len(sorted)])

RECURSIVE SortByCombined(_)
SortByCombined(cs) ==
    IF cs = <<>> THEN <<>>
    ELSE InsertByCombined(SortByCombined(SubSeq(cs, 1, Len(cs) - 1)), cs[Len(cs)])

\* [...new Set(xs)]: the distinct elements in order of first occurrence
RECURSIVE Distinct(_)
Distinct(xs) ==
    IF xs = <<>> THEN <<>>
    ELSE LET init == Distinct(SubSeq(xs, 1, Len(xs) - 1))
             x == xs[Len(xs)]
         IN  IF \E i \in 1..Len(init) : init[i] = x THEN init ELSE Append(init, x)

\* toLocaleDateString('en-US', {weekday: 'long'}); day 0 of the model is a Monday
WeekdayNames ==
    <<"Monday", "Tuesday", "Wednesday", "Thursday", "Friday", "Saturday", "Sunday">>

weekdayOf(date, zone) ==
    WeekdayNames[(((date + zone) \div MinutesPerDay) % DaysPerWeek) + 1]

VeryOpenMin == 70
ModerateMin == 40

buildReasoning(dayScore, calendarScore, freshnessScore, items, meals, zone) ==
    LET IsShort(m) == LET sl == getShelfLife(m.category)
                      IN  "category" \in DOMAIN sl /\ sl.category = "short"
        shortLife == SelectSeq(meals, IsShort)
        categories == Distinct([k \in 1..Len(shortLife) |-> shortLife[k].category])
    IN  <<<<weekdayOf(dayScore.date, zone), "is recommended for grocery pickup.">>>>
        \o <<IF calendarScore >= VeryOpenMin
             THEN "Your calendar is very open that day."
             ELSE IF calendarScore >= ModerateMin
             THEN "Your calendar has moderate availability."
             ELSE "Your calendar is busier, but freshness needs make this the best trade-off.">>
        \o (IF Len(shortLife) > 0
            THEN <<<<"Perishable items", categories, "stay freshest with this timing.">>>>
            ELSE <<>>)

EmptyWeekError == [error |-> "weekScores must contain at least one day"]

\* faulty variant: the stress score is not inverted into availability
scoredCandidatesNotInverted(scores, items, meals) ==
    [i \in 1..Len(scores) |->
        LET calendarScore == scores[i].finalScore
            freshnessScore == computeFreshnessScore(scores[i].date, items, meals)
        IN  [dayScore |-> scores[i],
             index |-> i - 1,
             calendarScore |-> calendarScore,
             freshnessScore |-> freshnessScore,
             combined |-> RAdd(RMul(CALENDAR_WEIGHT, RInt(calendarScore)),
                               RMul(FRESHNESS_WEIGHT, freshnessScore))]]

\* weekScores.map(...): the candidates in week order
scoredCandidates(scores, items, meals) ==
    [i \in 1..Len(scores) |->
        LET calendarScore == 100 - scores[i].finalScore
            freshnessScore == computeFreshnessScore(scores[i].date, items, meals)
        IN  [dayScore |-> scores[i],
             index |-> i - 1,
             calendarScore |-> calendarScore,
             freshnessScore |-> freshnessScore,
             combined |-> RAdd(RMul(CALENDAR_WEIGHT, RInt(calendarScore)),
                               RMul(FRESHNESS_WEIGHT, freshnessScore))]]

\* faulty variant: among equal combined scores the last candidate wins
pickBestLastOfTies(scored) ==
    LET top == SortByCombined(scored)[1].combined
        ties == {i \in 1..Len(scored) : scored[i].combined = top}
    IN  scored[CHOOSE i \in ties : \A j \in ties : j <= i]

pickBest(scored) == SortByCombined(scored)[1]

\* faulty variant: an empty perishableMealDates list is rejected as well
recommendPickupDayRejectsEmptyMeals(scores, items, meals, zone) ==
    IF Len(scores) = 0 \/ Len(meals) = 0 THEN EmptyWeekError
    ELSE LET best == pickBest(scoredCandidates(scores, items, meals))
         IN  [day |-> best.dayScore.date,
              dayIndex |-> best.index,
              reasoning |-> buildReasoning(best.dayScore, best.calendarScore,
                                           best.freshnessScore, items, meals, zone),
              score |-> best.combined]

recommendPickupDay(scores, items, meals, zone) ==
    IF Len(scores) = 0 THEN EmptyWeekError
    ELSE LET best == pickBest(scoredCandidates(scores, items, meals))
         IN  [day |-> best.dayScore.date,
              dayIndex |-> best.index,
              reasoning |-> buildReasoning(best.dayScore, best.calendarScore,
                                           best.freshnessScore, items, meals, zone),
              score |-> best.combined]

-----------------------------------------------------------------------------
(* Inputs                                                                  *)

MaxEvents == 2
MaxSignals == 2
MaxWeekDays == 3
MaxMeals == 2

SeqsUpTo(S, n) == UNION {[1..k -> S] : k \in 0..n}

\* America/New_York in winter, UTC, Asia/Kolkata
TZOffsets == {-300, 0, 330}

\* makeEvent('2025-02-17T09:00:00', ...): a wall-clock time of the process
\* zone, in minutes from Monday 00:00 local, parsed to an instant
makeEvent(localStart, localEnd, zone) ==
    [startTime |-> localStart - zone, endTime |-> localEnd - zone]

\* Sunday 23:00, Monday 09:00, 17:00 and 23:30, Tuesday 09:00
StartTimes == {-60, 540, 1020, 1410, 1980}
\* endTime - startTime; -60 is a malformed event that ends before it starts
Durations == {-60, 0, 60, 480}

EventsIn(zone) ==
    {makeEvent(st, st + du, zone) : st \in StartTimes, du \in Durations}

\* new Date('2025-02-17') (date-only, UTC midnight) and Monday 00:00 local
WeekStarts(zone) == {0, -zone}

SignalWeights == {0, 1, 3}
SignalScores == {0, 50, 75, 150}

\* any other ScoreSignal implementation: its weight and the score it returns
OtherSignal(w, sc) == [name |-> "other", weight |-> w, score |-> sc]

OtherSignals == {OtherSignal(w, sc) : w \in SignalWeights, sc \in SignalScores}

\* every list of at most MaxSignals of these signals, and every score 0..100
\* from a single signal alone or beside the TimeBlockSignal
SignalLists ==
    SeqsUpTo({TimeBlockSignal} \cup OtherSignals, MaxSignals)
    \cup {<<OtherSignal(1, sc)>> : sc \in 0..100}
    \cup {<<TimeBlockSignal, OtherSignal(1, sc)>> : sc \in 0..100}

\* makeDayScore(dateStr, finalScore, tier = 'standard')
makeDayScore(date, finalScore, tier) ==
    [date |-> date, finalScore |-> finalScore, tier |-> tier,
     signalBreakdown |-> <<>>]

PickupScores == {0, 20, 80}

\* the Monday and the Sunday of the week alone, as date-only days
SparseWeeks ==
    {<<makeDayScore(0, a, "standard"),
       makeDayScore((DaysPerWeek - 1) * MinutesPerDay, b, "standard")>> :
        a \in PickupScores, b \in PickupScores}

\* weeks of date-only days in ascending order from 2025-02-17
TestWeeks ==
    {[i \in 1..n |-> makeDayScore((i - 1) * MinutesPerDay, f[i], "standard")] :
        n \in 0..MaxWeekDays, f \in [1..MaxWeekDays -> PickupScores]}
    \cup SparseWeeks

GroceryLists ==
    SeqsUpTo({[item_name |-> "Salmon", category |-> "Seafood"],
              [item_name |-> "Rice", category |-> "Pantry"]}, 1)

\* planned on Monday, Saturday or Sunday (date-only, UTC midnight) or at
\* Wednesday noon UTC
MealDates == {0, 3600, 7200, 8640}
MealCategories == {"Seafood", "Produce", "Pantry"}

MealLists ==
    SeqsUpTo({[category |-> c, plannedDate |-> d] :
                 c \in MealCategories, d \in MealDates}, MaxMeals)


\* --- pairs of schedules for the same day, for comparisons ---

DinnerStart == SetHours(0, DINNER_PREP_START)
DinnerEnd == SetHours(0, DINNER_PREP_END)
MorningStart == SetHours(0, 9)
MorningEnd == SetHours(0, 11)

\* durations in minutes of the single event moved between the two windows
MovedDurations == {1, 2, 5, 7, 8, 15, 60, 120}

\* placements of an event of `du` minutes inside [wStart, wEnd]: at the start,
\* in the middle, at the end
Placements(wStart, wEnd, du) ==
    {wStart, wStart + (wEnd - wStart - du) \div 2, wEnd - du}

DinnerMorningPairs(zone) ==
    {<<<<makeEvent(a, a + du, zone)>>, <<makeEvent(b, b + du, zone)>>>> :
        <<du, a, b>> \in
            {t \in MovedDurations \X (DinnerStart..DinnerEnd) \X (MorningStart..MorningEnd) :
                /\ t[2] \in Placements(DinnerStart, DinnerEnd, t[1])
                /\ t[3] \in Placements(MorningStart, MorningEnd, t[1])}}

HourStarts == {h * MinutesPerHour : h \in WakingStartHour..(WakingEndHour - 1)}

OneHourEvents(starts, zone) ==
    [k \in 1..Len(starts) |-> makeEvent(starts[k], starts[k] + MinutesPerHour, zone)]

\* three 1-hour events back to back, from midnight, 07:00, 09:00, 13:00, 17:00, 20:00
BackToBackTriples(zone) ==
    {OneHourEvents(<<st, st + 60, st + 120>>, zone) :
        st \in {0, 420, 540, 780, 1020, 1200}}

\* three 1-hour events with at least an hour between them, on the hour
SpreadTriples(zone) ==
    {OneHourEvents(t, zone) :
        t \in {u \in HourStarts \X HourStarts \X HourStarts :
                  u[2] >= u[1] + 120 /\ u[3] >= u[2] + 120}}

\* 13:00-14:00 and 16:00-17:00 with two shorter events between them, in any
\* order of the list
MiddleStarts == {840, 855, 870, 900, 915, 930}
MiddleDurations == {30, 60}

FramedSchedules(zone) ==
    {<<makeEvent(780, 840, zone), makeEvent(m[1], m[1] + m[3], zone),
       makeEvent(960, 1020, zone), makeEvent(m[2], m[2] + 30, zone)>> :
        m \in MiddleStarts \X MiddleStarts \X MiddleDurations}

SchedulePairs(zone) ==
    DinnerMorningPairs(zone)
    \cup (BackToBackTriples(zone) \X SpreadTriples(zone))
    \cup (FramedSchedules(zone) \X FramedSchedules(zone))

-----------------------------------------------------------------------------
(* The week preview: new DayScoreEngine(signals), then either a direct     *)
(* signal.compute(events, weekStart) or scoreWeek(events, weekStart)       *)
(* followed by recommendPickupDay(scores, [], []).                         *)

Init ==
    /\ tz \in TZOffsets
    /\ \/ /\ signals = DefaultSignals
          /\ events \in SeqsUpTo(EventsIn(tz), MaxEvents)
       \/ /\ signals \in SignalLists
          /\ events \in {<<>>, <<makeEvent(540, 1020, tz)>>}
    /\ weekStart \in WeekStarts(tz)
    /\ signalResult = None
    /\ weekScores = <<>>
    /\ eventsB = <<>>
    /\ signalResultB = None
    /\ groceryItems = <<>>
    /\ perishableMealDates = <<>>
    /\ recommendation = None
    /\ pc = "ready"
    /\ AuxIdle

\* what the caller's events array holds after compute: eventsOnDate filters
\* into a new array and compute sorts a copy of that ([...dayEvents].sort)
eventsAfterCompute(evs, date, zone) == [k \in 1..Len(evs) |-> evs[k]]

\* the caller's weekStart after scoreWeek: every iteration works on
\* new Date(weekStart) and calls setDate on that copy
weekStartAfterScoreWeek(start) == start

\* faulty variant: weekScores itself is sorted by combined score
weekScoresSortedInPlace(scores, items, meals) ==
    LET sorted == SortByCombined(scoredCandidates(scores, items, meals))
    IN  [k \in 1..Len(scores) |-> sorted[k].dayScore]

\* the caller's weekScores after recommendPickupDay: map builds the new array
\* `scored`, and sort reorders that array only
weekScoresAfterRecommend(scores, items, meals) == [k \in 1..Len(scores) |-> scores[k]]

Compute ==
    /\ pc = "ready"
    /\ signalResult' = TimeBlockCompute(events, weekStart, tz)
    /\ events' = eventsAfterCompute(events, weekStart, tz)
    /\ pc' = "computed"
    /\ UNCHANGED <<tz, signals, weekStart, weekScores, eventsB,
                   signalResultB, groceryItems, perishableMealDates, recommendation>>
    /\ UNCHANGED auxVars

ScoreWeek ==
    /\ pc = "ready"
    /\ weekScores' = scoreWeek(signals, events, weekStart, tz)
    /\ events' = eventsAfterCompute(events, weekStart, tz)
    /\ weekStart' = weekStartAfterScoreWeek(weekStart)
    /\ pc' = "scored"
    /\ UNCHANGED <<tz, signals, signalResult, eventsB,
                   signalResultB, groceryItems, perishableMealDates, recommendation>>
    /\ UNCHANGED auxVars

RecommendPickupDay ==
    /\ pc = "scored"
    /\ recommendation' =
           recommendPickupDay(weekScores, groceryItems, perishableMealDates, tz)
    /\ weekScores' = weekScoresAfterRecommend(weekScores, groceryItems,
                                               perishableMealDates)
    /\ pc' = "done"
    /\ UNCHANGED <<tz, signals, events, weekStart, signalResult,
                   eventsB, signalResultB, groceryItems, perishableMealDates>>
    /\ UNCHANGED auxVars

Next == Compute \/ ScoreWeek \/ RecommendPickupDay

Spec == Init /\ [][Next]_vars

-----------------------------------------------------------------------------
(* recommendPickupDay on hand-made week scores, groceries and meal dates.  *)

InitPickup ==
    /\ tz \in {0}
    /\ signals = DefaultSignals
    /\ events = <<>>
    /\ weekStart = 0
    /\ signalResult = None
    /\ weekScores \in TestWeeks
    /\ eventsB = <<>>
    /\ signalResultB = None
    /\ groceryItems \in GroceryLists
    /\ perishableMealDates \in MealLists
    /\ recommendation = None
    /\ pc = "scored"
    /\ AuxIdle

NextPickup == RecommendPickupDay

SpecPickup == InitPickup /\ [][NextPickup]_vars

-----------------------------------------------------------------------------
(* Two schedules scored for the same day by one TimeBlockSignal.           *)

InitPair ==
    /\ tz \in TZOffsets
    /\ signals = DefaultSignals
    /\ weekStart = 0
    /\ \E p \in SchedulePairs(tz) : events = p[1] /\ eventsB = p[2]
    /\ signalResult = None
    /\ signalResultB = None
    /\ weekScores = <<>>
    /\ groceryItems = <<>>
    /\ perishableMealDates = <<>>
    /\ recommendation = None
    /\ pc = "ready"
    /\ AuxIdle

ComputeB ==
    /\ pc = "computed"
    /\ signalResultB' = TimeBlockCompute(eventsB, weekStart, tz)
    /\ pc' = "compared"
    /\ UNCHANGED <<tz, signals, events, weekStart, signalResult, weekScores, eventsB,
                   groceryItems, perishableMealDates, recommendation>>
    /\ UNCHANGED auxVars

NextPair == Compute \/ ComputeB

SpecPair == InitPair /\ [][NextPair]_vars

-----------------------------------------------------------------------------
(* TimeBlockSignal on one day's schedules: a short event at every half     *)
(* hour of the day, schedules that fill the waking window, and the packed  *)
(* day of the engine's tests.                                              *)

\* makeEvent('2025-02-17Thh:mm:00', ...): minutes of the local day of `date`
eventOnDay(fromMin, toMin, date, zone) ==
    LET dayBase == localDayBounds(date, zone).dayStart
    IN  [startTime |-> dayBase + fromMin, endTime |-> dayBase + toMin]

\* one event of up to 75 minutes, starting on a half hour from 23:00 of the
\* day before to 00:00 of the day after
ShortEventDays(date, zone) ==
    {<<eventOnDay(st, st + du, date, zone)>> :
        st \in {30 * k - 60 : k \in 0..50}, du \in {0, 15, 30, 45, 60, 75}}

\* 07:00-23:00 filled by one, two or three events, in and out of order,
\* overlapping, reaching outside the window or followed by a late event;
\* the last three leave a gap
WindowFillingDays(date, zone) ==
    LET E(a, b) == eventOnDay(a, b, date, zone)
    IN  {<<E(420, 1380)>>,
         <<E(360, 1440)>>,
         <<E(-240, 1380)>>,
         <<E(420, 900), E(900, 1380)>>,
         <<E(900, 1380), E(420, 900)>>,
         <<E(420, 900), E(840, 1380)>>,
         <<E(420, 1380), E(480, 540)>>,
         <<E(420, 1380), E(1410, 1425)>>,
         <<E(0, 720), E(720, 1439)>>,
         <<E(420, 720), E(720, 1080), E(1080, 1380)>>,
         <<E(450, 1380)>>,
         <<E(420, 900), E(930, 1380)>>,
         <<E(420, 1350)>>}

\* scoringEngine.test.ts 'scores a packed day high'
PackedDay(date, zone) ==
    LET E(a, b) == eventOnDay(a, b, date, zone)
    IN  <<E(480, 600), E(600, 720), E(750, 840), E(840, 960), E(960, 1080),
          E(1140, 1200)>>

DaySchedules(date, zone) ==
    ShortEventDays(date, zone) \cup WindowFillingDays(date, zone)
        \cup {PackedDay(date, zone)}

InitDay ==
    /\ tz \in TZOffsets
    /\ signals = DefaultSignals
    /\ weekStart \in WeekStarts(tz)
    /\ events \in DaySchedules(weekStart, tz)
    /\ signalResult = None
    /\ weekScores = <<>>
    /\ eventsB = <<>>
    /\ signalResultB = None
    /\ groceryItems = <<>>
    /\ perishableMealDates = <<>>
    /\ recommendation = None
    /\ pc = "ready"
    /\ AuxIdle

NextDay == Compute

SpecDay == InitDay /\ [][NextDay]_vars

-----------------------------------------------------------------------------
(* One day scored twice by TimeBlockSignal: as it is, and with one more    *)
(* event in the list.                                                      *)

\* a free day; one morning meeting; two meetings back to back, 15 minutes
\* apart and hours apart; lunch and dinner meetings; a filled waking window
BaseDays(date, zone) ==
    LET E(a, b) == eventOnDay(a, b, date, zone)
    IN  {<<>>,
         <<E(540, 600)>>,
         <<E(540, 600), E(600, 660)>>,
         <<E(540, 600), E(615, 660)>>,
         <<E(540, 600), E(900, 960)>>,
         <<E(720, 780), E(1020, 1080)>>,
         <<E(420, 1380)>>}

\* from 23:00 of the day before, 07:00, 09:00, 11:00, 12:00, 17:00, 20:00 or
\* 23:30, for no time, 15 minutes, 1 hour or 8 hours
AddedEvents(date, zone) ==
    {eventOnDay(st, st + du, date, zone) :
        st \in {-60, 420, 540, 660, 720, 1020, 1200, 1410}, du \in {0, 15, 60, 480}}

InitAddOne ==
    /\ tz \in TZOffsets
    /\ signals = DefaultSignals
    /\ weekStart \in WeekStarts(tz)
    /\ events \in BaseDays(weekStart, tz)
    /\ \E e \in AddedEvents(weekStart, tz) : eventsB = Append(events, e)
    /\ signalResult = None
    /\ signalResultB = None
    /\ weekScores = <<>>
    /\ groceryItems = <<>>
    /\ perishableMealDates = <<>>
    /\ recommendation = None
    /\ pc = "ready"
    /\ AuxIdle

NextAddOne == Compute \/ ComputeB

SpecAddOne == InitAddOne /\ [][NextAddOne]_vars

-----------------------------------------------------------------------------
(* Connecting Google Calendar: GET /api/auth/google-calendar sets the      *)
(* nonce cookie and redirects to Google; GET .../callback checks the state *)
(* against the cookie and stores the tokens. The browser holds the cookie: *)
(* a request carries the cookies of the moment it is sent, and a response  *)
(* changes them when it arrives.                                           *)

MaxNonces == 2
MaxCallbacks == 2

Users == {"u1", "u2"}

\* crypto.randomUUID(): the k-th nonce, different from every other
Nonce(k) == <<"n1", "n2", "n3">>[k]
IssuedNonces == {Nonce(k) : k \in 1..issued}

\* the code parameter: what Google issued, or absent
Codes == {"c1", "c2"}

CallbackRequest(code, state, cookie, user) ==
    [code |-> code, state |-> state, cookie |-> cookie, user |-> user,
     stage |-> "inflight", deletesCookie |-> FALSE, delivered |-> FALSE,
     storedFor |-> None]

\* the callback up to the token exchange: where it returns, or "exchange"
callbackChecks(req) ==
    IF req.code = None \/ req.state = None THEN "bad_request"
    ELSE IF req.cookie = None \/ req.cookie # req.state THEN "nonce_mismatch"
    ELSE IF req.user = None THEN "login"
    ELSE "exchange"

\* cookieStore.delete runs once code and state are present
callbackDeletesCookie(req) == req.code # None /\ req.state # None

\* upsert({user_id, provider: 'google', access_token, ...}, onConflict)
upsertConnection(rows, userId, code) ==
    [u \in DOMAIN rows \cup {userId} |->
        IF u = userId THEN [provider |-> "google", tokensOf |-> code] ELSE rows[u]]

InitOAuth ==
    /\ tz = 0
    /\ signals = DefaultSignals
    /\ events = <<>>
    /\ weekStart = 0
    /\ signalResult = None
    /\ weekScores = <<>>
    /\ eventsB = <<>>
    /\ signalResultB = None
    /\ groceryItems = <<>>
    /\ perishableMealDates = <<>>
    /\ recommendation = None
    /\ pc = "oauth"
    /\ ShelfIdle
    /\ SaveIdle
    /\ FetchIdle
    /\ session \in Users \cup {None}
    /\ nonceCookie = None
    /\ issued = 0
    /\ callbacks = <<>>
    /\ connections = <<>>

\* the user signs in, signs out or another user signs in on this browser
ChangeSession ==
    /\ pc = "oauth"
    /\ session' \in (Users \cup {None}) \ {session}
    /\ UNCHANGED <<coreVars, pc, shelfVars, saveVars, fetchVars, nonceCookie, issued,
                   callbacks, connections>>

\* GET /api/auth/google-calendar for a signed-in user (without a user it
\* redirects to /login and sets nothing): a new nonce in the cookie and in the
\* state of the Google URL
InitiateAuth ==
    /\ pc = "oauth"
    /\ session # None
    /\ issued < MaxNonces
    /\ issued' = issued + 1
    /\ nonceCookie' = Nonce(issued + 1)
    /\ UNCHANGED <<coreVars, pc, shelfVars, saveVars, fetchVars, session, callbacks,
                   connections>>

\* the browser requests the callback URL, sent there by Google or by any
\* other page: the state is an issued nonce, a made-up one or absent
SendCallback ==
    /\ pc = "oauth"
    /\ Len(callbacks) < MaxCallbacks
    /\ \E code \in Codes \cup {None}, state \in IssuedNonces \cup {"forged", None} :
           callbacks' = Append(callbacks,
                               CallbackRequest(code, state, nonceCookie, session))
    /\ UNCHANGED <<coreVars, pc, shelfVars, saveVars, fetchVars, session, nonceCookie,
                   issued, connections>>

\* GET /api/auth/google-calendar/callback for the i-th request; getToken and
\* the upsert succeed or fail
HandleCallback(i) ==
    /\ pc = "oauth"
    /\ callbacks[i].stage = "inflight"
    /\ LET req == callbacks[i]
           Handled(stage, user) ==
               [req EXCEPT !.stage = stage,
                           !.deletesCookie = callbackDeletesCookie(req),
                           !.storedFor = user]
       IN  IF callbackChecks(req) # "exchange"
           THEN /\ callbacks' = [callbacks EXCEPT ![i] = Handled(callbackChecks(req), None)]
                /\ UNCHANGED connections
           ELSE \/ /\ callbacks' = [callbacks EXCEPT ![i] = Handled("token_failed", None)]
                   /\ UNCHANGED connections
                \/ /\ callbacks' = [callbacks EXCEPT ![i] = Handled("store_failed", None)]
                   /\ UNCHANGED connections
                \/ /\ callbacks' = [callbacks EXCEPT ![i] = Handled("stored", req.user)]
                   /\ connections' = upsertConnection(connections, req.user, req.code)
    /\ UNCHANGED <<coreVars, pc, shelfVars, saveVars, fetchVars, session, nonceCookie,
                   issued>>

\* the response of the i-th callback reaches the browser, with its
\* Set-Cookie that removes calendar_auth_nonce if the handler deleted it
DeliverResponse(i) ==
    /\ pc = "oauth"
    /\ callbacks[i].stage # "inflight"
    /\ ~callbacks[i].delivered
    /\ callbacks' = [callbacks EXCEPT ![i].delivered = TRUE]
    /\ nonceCookie' = IF callbacks[i].deletesCookie THEN None ELSE nonceCookie
    /\ UNCHANGED <<coreVars, pc, shelfVars, saveVars, fetchVars, session, issued,
                   connections>>

NextOAuth ==
    \/ ChangeSession
    \/ InitiateAuth
    \/ SendCallback
    \/ \E i \in 1..Len(callbacks) : HandleCallback(i)
    \/ \E i \in 1..Len(callbacks) : DeliverResponse(i)

SpecOAuth == InitOAuth /\ [][NextOAuth]_vars

-----------------------------------------------------------------------------
(* Properties                                                              *)

(* getShelfLife on category strings.                                       *)

\* table keys in another case or with stray blanks, and strings no table has
OtherCategories ==
    {"", " ", "seafood", "SEAFOOD", "Seafood ", " Seafood", "Sea food", "fish",
     "FISH", "produce", "PRODUCE", "dairy", "Dairy Products", "eggs", "meat",
     "pantry", "PANTRY", "rice", "RICE", "spices", "frozen", "Frozen Foods",
     "fresh herbs", "Fresh herbs", "leafy greens", "Canned goods",
     "nonexistent-category", "undefined", "null", "category"}

CategoryStrings ==
    DOMAIN SHELF_LIFE \cup OtherCategories \cup ObjectPrototypeMembers

InitShelf ==
    /\ tz = 0
    /\ signals = DefaultSignals
    /\ events = <<>>
    /\ weekStart = 0
    /\ signalResult = None
    /\ weekScores = <<>>
    /\ eventsB = <<>>
    /\ signalResultB = None
    /\ groceryItems = <<>>
    /\ perishableMealDates = <<>>
    /\ recommendation = None
    /\ pc = "lookup"
    /\ shelfCategory \in CategoryStrings
    /\ shelfEntry = None
    /\ SaveIdle
    /\ FetchIdle
    /\ OAuthIdle

GetShelfLife ==
    /\ pc = "lookup"
    /\ shelfEntry' = getShelfLife(shelfCategory)
    /\ pc' = "looked up"
    /\ UNCHANGED <<oauthVars, coreVars, shelfCategory, saveVars, fetchVars>>

NextShelf == GetShelfLife

SpecShelf == InitShelf /\ [][NextShelf]_vars

-----------------------------------------------------------------------------
(* The week preview page: getWeekPreviewData, the user's tier overrides    *)
(* (WeekPreviewClient) and saveWeekScoresAndGenerate.                      *)

dayNames ==
    <<"Monday", "Tuesday", "Wednesday", "Thursday", "Friday", "Saturday", "Sunday">>

tierCycle == <<"quick", "standard", "exploratory">>

\* xs.indexOf(x) + 1, for an x that occurs in xs
IndexOf(xs, x) == CHOOSE i \in 1..Len(xs) : xs[i] = x /\ \A j \in 1..(i - 1) : xs[j] # x

\* getWeekPreviewData's dayScores: reasoning is signalBreakdown[0]?.reasoning ?? ''
previewDayScores(scores) ==
    [i \in 1..Len(scores) |->
        [date |-> scores[i].date,
         finalScore |-> scores[i].finalScore,
         tier |-> scores[i].tier,
         reasoning |-> IF Len(scores[i].signalBreakdown) > 0
                       THEN scores[i].signalBreakdown[1].reasoning
                       ELSE <<>>]]

\* handleGenerate: the DayScore[] sent to the server action
clientDayScores(data) ==
    [i \in 1..Len(data) |->
        [date |-> data[i].date,
         finalScore |-> data[i].finalScore,
         tier |-> data[i].tier,
         signalBreakdown |-> <<[score |-> data[i].finalScore,
                                reasoning |-> data[i].reasoning,
                                rawData |-> <<>>]>>]]

getEffectiveTier(data, ov, dayIndex) ==
    IF dayNames[dayIndex] \in DOMAIN ov THEN ov[dayNames[dayIndex]]
    ELSE data[dayIndex].tier

\* faulty variant: the override is kept when the cycle is back at the scored
\* tier
handleDayClickAlwaysSets(data, ov, dayName, currentTier) ==
    LET nextTier == tierCycle[(IndexOf(tierCycle, currentTier) % Len(tierCycle)) + 1]
    IN  [d \in DOMAIN ov \cup {dayName} |->
            IF d = dayName THEN nextTier ELSE ov[d]]

\* handleDayClick: the next tier of the cycle; cycling back to the scored
\* tier removes the override
handleDayClick(data, ov, dayName, currentTier) ==
    LET nextTier == tierCycle[(IndexOf(tierCycle, currentTier) % Len(tierCycle)) + 1]
        originalTier == data[IndexOf(dayNames, dayName)].tier
    IN  IF nextTier = originalTier
        THEN [d \in DOMAIN ov \ {dayName} |-> ov[d]]
        ELSE [d \in DOMAIN ov \cup {dayName} |->
                 IF d = dayName THEN nextTier ELSE ov[d]]

\* dayNames[i] for the i-th score; undefined becomes the key 'undefined'
dayNameAt(i) == IF i <= Len(dayNames) THEN dayNames[i] ELSE "undefined"

\* faulty variant: the scored tier wins over the user's override
complexityMapIgnoringOverrides(dayScores, userAdjustments) ==
    LET keys == {dayNameAt(i) : i \in 1..Len(dayScores)}
        LastOf(name) == CHOOSE i \in 1..Len(dayScores) :
                            /\ dayNameAt(i) = name
                            /\ \A j \in (i + 1)..Len(dayScores) : dayNameAt(j) # name
    IN  [name \in keys |-> dayScores[LastOf(name)].tier]

\* dayScores.forEach: complexityMap[dayName] = userAdjustments[dayName] ?? score.tier
complexityMapOf(dayScores, userAdjustments) ==
    LET keys == {dayNameAt(i) : i \in 1..Len(dayScores)}
        LastOf(name) == CHOOSE i \in 1..Len(dayScores) :
                            /\ dayNameAt(i) = name
                            /\ \A j \in (i + 1)..Len(dayScores) : dayNameAt(j) # name
    IN  [name \in keys |->
            IF name \in DOMAIN userAdjustments THEN userAdjustments[name]
            ELSE dayScores[LastOf(name)].tier]

\* weekScoreData; an undefined user_adjustments is the empty sequence
weekScoreDataOf(userId, weekOf, dayScores, userAdjustments, pickupDay, pickupReasoning) ==
    [user_id |-> userId,
     week_of |-> weekOf,
     day_scores |-> [i \in 1..Len(dayScores) |->
                        [date |-> dayScores[i].date,
                         finalScore |-> dayScores[i].finalScore,
                         tier |-> dayScores[i].tier,
                         signalBreakdown |-> dayScores[i].signalBreakdown]],
     user_adjustments |-> IF DOMAIN userAdjustments # {}
                          THEN <<userAdjustments>> ELSE <<>>,
     provider_version |-> "v1-time-block",
     recommended_pickup_day |-> pickupDay,
     pickup_reasoning |-> pickupReasoning]

\* a free week; a Monday workday; a Monday filled from 07:00 to 23:00 with a
\* Tuesday workday and a Sunday evening
SaveSchedules(zone) ==
    {<<>>,
     <<makeEvent(540, 1020, zone)>>,
     <<makeEvent(420, 1380, zone), makeEvent(1980, 2460, zone),
       makeEvent(9660, 9840, zone)>>}

InitSave ==
    /\ tz \in TZOffsets
    /\ signals = DefaultSignals
    /\ events \in SaveSchedules(tz)
    /\ weekStart = 0
    /\ signalResult = None
    /\ weekScores = <<>>
    /\ eventsB = <<>>
    /\ signalResultB = None
    /\ groceryItems = <<>>
    /\ perishableMealDates = <<>>
    /\ recommendation = None
    /\ pc = "scoring"
    /\ AuxIdle

\* getWeekPreviewData for a user with a connected calendar
GetWeekPreviewData ==
    /\ pc = "scoring"
    /\ weekScores' = scoreWeek(signals, events, weekStart, tz)
    /\ recommendation' = recommendPickupDay(weekScores', <<>>, <<>>, tz)
    /\ pc' = "preview"
    /\ UNCHANGED <<tz, signals, events, weekStart, signalResult, eventsB,
                   signalResultB, groceryItems, perishableMealDates>>
    /\ UNCHANGED auxVars

\* the user clicks a day card
HandleDayClick ==
    /\ pc = "preview"
    /\ \E i \in 1..Len(weekScores) :
           LET data == previewDayScores(weekScores)
           IN  overrides' = handleDayClick(data, overrides, dayNames[i],
                                           getEffectiveTier(data, overrides, i))
    /\ UNCHANGED <<oauthVars, coreVars, pc, shelfVars, weekScoreRow, saveResult, fetchVars>>

ResetOverrides ==
    /\ pc = "preview"
    /\ overrides' = <<>>
    /\ UNCHANGED <<oauthVars, coreVars, pc, shelfVars, weekScoreRow, saveResult, fetchVars>>

\* handleGenerate -> saveWeekScoresAndGenerate, for a user who is signed in
\* or not and an insert that succeeds or fails
SaveWeekScoresAndGenerate ==
    /\ pc = "preview"
    /\ LET dayScores == clientDayScores(previewDayScores(weekScores))
           pickupDay == dayNames[recommendation.dayIndex + 1]
           row == weekScoreDataOf("user", weekStart, dayScores, overrides,
                                  pickupDay, recommendation.reasoning)
       IN  \/ /\ saveResult' = [error |-> "Not authenticated"]
              /\ weekScoreRow' = None
           \/ /\ saveResult' = [error |-> "Failed to save week scores"]
              /\ weekScoreRow' = None
           \/ /\ weekScoreRow' = row
              /\ saveResult' = [success |-> TRUE,
                                complexityMap |-> complexityMapOf(dayScores, overrides)]
    /\ pc' = "saved"
    /\ UNCHANGED <<oauthVars, coreVars, shelfVars, overrides, fetchVars>>

NextSave ==
    GetWeekPreviewData \/ HandleDayClick \/ ResetOverrides \/ SaveWeekScoresAndGenerate

SpecSave == InitSave /\ [][NextSave]_vars

-----------------------------------------------------------------------------
(* services/calendarService.ts: fetchAllEvents.  One async task per         *)
(* connected source; the tasks interleave at their awaits.                 *)

MaxProviders == 2

\* the sources getProvider knows
CalendarSources == {"google", "apple"}

\* calendar_connections.provider is cast to CalendarSource unchecked
SourceNames == CalendarSources \cup {"outlook"}

CalendarEvent(id, source, startTime, endTime) ==
    [id |-> id, source |-> source, startTime |-> startTime, endTime |-> endTime]

\* Google lists events ordered by start time; CalDAV objects come in any order
GoogleCalendars ==
    {<<>>,
     <<CalendarEvent("g1", "google", 540, 600),
       CalendarEvent("g2", "google", 1020, 1080)>>}

\* fetchEvents pushes the objects of every calendar of the account, one
\* calendar after the other; a UID is unique within one calendar only
AppleCalendars ==
    {<<CalendarEvent("a1", "apple", 540, 570)>>,
     <<CalendarEvent("a1", "apple", 540, 570),
       CalendarEvent("a1", "apple", 540, 570)>>,
     <<CalendarEvent("a2", "apple", 1980, 2040),
       CalendarEvent("a3", "apple", 60, 120)>>}

\* the providers of the user's calendar_connections rows, in the order
\* the query returns them; the table is UNIQUE(user_id, provider)
ConnectedProviders ==
    {s \in SeqsUpTo(SourceNames, MaxProviders) : Distinct(s) = s}

Task(state, authenticated, fetched, value) ==
    [state |-> state, authenticated |-> authenticated, fetched |-> fetched,
     value |-> value]

Settled(task) == task.state \in {"fulfilled", "rejected"}

\* faulty variant: the loop over the results stops at the first rejection
collectEventsUntilRejected(results) ==
    LET firstRejected ==
            IF \E i \in 1..Len(results) : results[i].state = "rejected"
            THEN CHOOSE i \in 1..Len(results) :
                     /\ results[i].state = "rejected"
                     /\ \A j \in 1..(i - 1) : results[j].state # "rejected"
            ELSE Len(results) + 1
        Concat[k \in 0..Len(results)] ==
            IF k = 0 THEN <<>>
            ELSE IF k < firstRejected THEN Concat[k - 1] \o results[k].value
            ELSE Concat[k - 1]
    IN  Concat[Len(results)]

\* for (const result of results): the values of the fulfilled tasks, in the
\* order of sources
collectEvents(results) ==
    LET Concat[k \in 0..Len(results)] ==
            IF k = 0 THEN <<>>
            ELSE IF results[k].state = "fulfilled"
            THEN Concat[k - 1] \o results[k].value
            ELSE Concat[k - 1]
    IN  Concat[Len(results)]

InitFetch ==
    /\ tz = 0
    /\ signals = DefaultSignals
    /\ events = <<>>
    /\ weekStart = 0
    /\ signalResult = None
    /\ weekScores = <<>>
    /\ eventsB = <<>>
    /\ signalResultB = None
    /\ groceryItems = <<>>
    /\ perishableMealDates = <<>>
    /\ recommendation = None
    /\ pc = "fetch"
    /\ ShelfIdle
    /\ SaveIdle
    /\ OAuthIdle
    /\ sources \in ConnectedProviders
    /\ providerEvents \in [google : GoogleCalendars, apple : AppleCalendars]
    /\ tasks = <<>>
    /\ settleOrder = <<>>
    /\ lastFetchedAt = {}
    /\ allEvents = None

\* fetchAllEvents up to Promise.allSettled, for a signed-in user: no source
\* returns []; otherwise every task runs to its first await, and a task whose
\* source getProvider does not know is rejected at once
StartFetches ==
    /\ pc = "fetch"
    /\ IF Len(sources) = 0
       THEN /\ allEvents' = <<>>
            /\ pc' = "returned"
            /\ UNCHANGED <<tasks, settleOrder>>
       ELSE /\ tasks' = [i \in 1..Len(sources) |->
                            IF sources[i] \in CalendarSources
                            THEN Task("authenticate", FALSE, FALSE, <<>>)
                            ELSE Task("rejected", FALSE, FALSE, <<>>)]
            /\ settleOrder' = SelectSeq([i \in 1..Len(sources) |-> i],
                                        LAMBDA i : sources[i] \notin CalendarSources)
            /\ pc' = "awaiting"
            /\ UNCHANGED allEvents
    /\ UNCHANGED <<oauthVars, coreVars, shelfVars, saveVars, sources, providerEvents,
                   lastFetchedAt>>

\* await provider.authenticate(user.id) resolves or throws
Authenticate(i) ==
    /\ pc = "awaiting"
    /\ tasks[i].state = "authenticate"
    /\ \/ /\ tasks' = [tasks EXCEPT ![i] = Task("fetchEvents", TRUE, FALSE, <<>>)]
          /\ UNCHANGED settleOrder
       \/ /\ tasks' = [tasks EXCEPT ![i] = Task("rejected", FALSE, FALSE, <<>>)]
          /\ settleOrder' = Append(settleOrder, i)
    /\ UNCHANGED <<oauthVars, coreVars, pc, shelfVars, saveVars, sources, providerEvents,
                   lastFetchedAt, allEvents>>

\* await provider.fetchEvents(startDate, endDate) resolves or throws
FetchEvents(i) ==
    /\ pc = "awaiting"
    /\ tasks[i].state = "fetchEvents"
    /\ \/ /\ tasks' = [tasks EXCEPT
                          ![i] = Task("update", TRUE, TRUE, providerEvents[sources[i]])]
          /\ UNCHANGED settleOrder
       \/ /\ tasks' = [tasks EXCEPT ![i] = Task("rejected", TRUE, FALSE, <<>>)]
          /\ settleOrder' = Append(settleOrder, i)
    /\ UNCHANGED <<oauthVars, coreVars, pc, shelfVars, saveVars, sources, providerEvents,
                   lastFetchedAt, allEvents>>

\* await supabase...update({last_fetched_at}): the query resolves to a
\* result whose error nobody reads, whether the row was written or not
UpdateLastFetchedAt(i) ==
    /\ pc = "awaiting"
    /\ tasks[i].state = "update"
    /\ tasks' = [tasks EXCEPT ![i].state = "fulfilled"]
    /\ settleOrder' = Append(settleOrder, i)
    /\ \/ lastFetchedAt' = lastFetchedAt \cup {sources[i]}
       \/ UNCHANGED lastFetchedAt
    /\ UNCHANGED <<oauthVars, coreVars, pc, shelfVars, saveVars, sources, providerEvents,
                   allEvents>>

\* Promise.allSettled resolved: collect, sort by startTime, return
CollectAndSort ==
    /\ pc = "awaiting"
    /\ \A i \in 1..Len(tasks) : Settled(tasks[i])
    /\ allEvents' = SortByStart(collectEvents(tasks))
    /\ pc' = "returned"
    /\ UNCHANGED <<oauthVars, coreVars, shelfVars, saveVars, sources, providerEvents, tasks,
                   settleOrder, lastFetchedAt>>

NextFetch ==
    \/ StartFetches
    \/ \E i \in 1..Len(tasks) : Authenticate(i)
    \/ \E i \in 1..Len(tasks) : FetchEvents(i)
    \/ \E i \in 1..Len(tasks) : UpdateLastFetchedAt(i)
    \/ CollectAndSort

SpecFetch == InitFetch /\ [][NextFetch]_vars

-----------------------------------------------------------------------------
Scored == pc \in {"scored", "done"}

\* the tier table of the design: 0-35 exploratory, 36-65 standard, 66-100 quick
TableTier(score) ==
    CASE score \in 0..35 -> "exploratory"
      [] score \in 36..65 -> "standard"
      [] score \in 66..100 -> "quick"
      [] OTHER -> "outside the table"

\* available cooking time of a tier: quick < standard < exploratory
TimeRank(tier) ==
    CASE tier = "quick" -> 0 [] tier = "standard" -> 1 [] tier = "exploratory" -> 2

\* C1: every DayScore that scoreWeek of the default engine (one
\* TimeBlockSignal) returns has an integer finalScore in 0..100 and the tier
\* the threshold table gives that finalScore.
C1_DefaultWeekScoresInRangeWithTableTier ==
    (Scored /\ signals = DefaultSignals) =>
        \A i \in 1..Len(weekScores) :
            /\ weekScores[i].finalScore \in 0..100
            /\ weekScores[i].tier = TableTier(weekScores[i].finalScore)

\* a default-engine week with a malformed event (ends before it starts) on a
\* day, and a day in the standard band
C1_Witness ==
    /\ pc = "scored"
    /\ signals = DefaultSignals
    /\ \E k \in 1..Len(events) : events[k].endTime < events[k].startTime
    /\ \E i \in 1..Len(weekScores) : weekScores[i].finalScore \in 36..65

\* the weighted average of the signal results of one day as the design states
\* it: 0 for total weight 0, else rounded and clamped into [0, 100]
DesignFinalScore(sigs, results) ==
    LET totalWeight == SumSeq([k \in 1..Len(sigs) |-> RInt(sigs[k].weight)])
        weighted == SumSeq([k \in 1..Len(sigs) |->
                              RInt(results[k].score * sigs[k].weight)])
    IN  IF totalWeight = RInt(0) THEN 0
        ELSE IntMin(100, IntMax(0, MathRound(RDiv(weighted, totalWeight))))

\* C2: for any configured signal list, a day's finalScore is the weighted
\* average of the signal scores, rounded to the nearest integer and clamped
\* into [0, 100], and 0 when the total weight is 0.
C2_FinalScoreIsClampedWeightedAverage ==
    Scored =>
        \A i \in 1..Len(weekScores) :
            weekScores[i].finalScore =
                DesignFinalScore(signals, weekScores[i].signalBreakdown)

\* C3: tierFromScore maps 0..35 to exploratory, 36..65 to standard and
\* 66..100 to quick; so of two scores the higher never gets a tier with more
\* available cooking time.
C3_TierThresholdsAndMonotone ==
    Scored =>
        \A i \in 1..Len(weekScores) :
            LET sc == weekScores[i].finalScore
                t == weekScores[i].tier
            IN  /\ sc \in 0..35 => t = "exploratory"
                /\ sc \in 36..65 => t = "standard"
                /\ sc \in 66..100 => t = "quick"
                /\ \A j \in 1..Len(weekScores) :
                       sc <= weekScores[j].finalScore
                           => TimeRank(t) >= TimeRank(weekScores[j].tier)

\* a week with a day exactly on a threshold and another day in a higher band
C3_Witness ==
    /\ pc = "scored"
    /\ \E i, j \in 1..Len(weekScores) :
           /\ weekScores[i].finalScore = 35
           /\ weekScores[i].tier = "exploratory"
           /\ weekScores[j].finalScore > 35
           /\ weekScores[j].tier = "standard"

ContainsFree(reasoning) ==
    \E k \in 1..Len(reasoning) :
        reasoning[k] \in {"Completely free day", "largest free block"}

\* C4: compute with an empty event list returns score 0, a reasoning that
\* contains 'free', totalCommittedHours 0, backToBackCount 0 and
\* largestFreeBlockHours equal to the waking-hours constant; scoreWeek (of the
\* default engine) with an empty event list returns finalScore 0 and tier
\* exploratory for all 7 days.
C4_EmptyEventListIsFree ==
    /\ (pc = "computed" /\ events = <<>>) =>
           /\ signalResult.score = 0
           /\ ContainsFree(signalResult.reasoning)
           /\ signalResult.rawData.totalCommittedHours = RInt(0)
           /\ signalResult.rawData.backToBackCount = 0
           /\ signalResult.rawData.largestFreeBlockHours = RInt(WAKING_HOURS)
    /\ (Scored /\ events = <<>> /\ signals = DefaultSignals) =>
           /\ Len(weekScores) = 7
           /\ \A i \in 1..Len(weekScores) :
                  /\ weekScores[i].finalScore = 0
                  /\ weekScores[i].tier = "exploratory"

\* the default engine has scored a week without events
C4_Witness ==
    /\ pc = "scored"
    /\ events = <<>>
    /\ signals = DefaultSignals
    /\ Len(weekScores) = 7
    /\ weekScores[7].signalBreakdown[1].reasoning = <<"Completely free day">>

\* C5: scoreWeek returns exactly 7 DayScores, dated weekStart, weekStart + 1
\* day, ..., weekStart + 6 days in that order, each with one signal result
\* per configured signal (so non-empty for the default engine).
C5_SevenDaysInOrder ==
    Scored =>
        /\ Len(weekScores) = 7
        /\ \A i \in 1..Len(weekScores) :
               /\ weekScores[i].date = weekStart + (i - 1) * 1440
               /\ Len(weekScores[i].signalBreakdown) = Len(signals)
               /\ signals = DefaultSignals
                      => Len(weekScores[i].signalBreakdown) > 0

\* a scored week whose second day has an event of its own
C5_Witness ==
    /\ pc = "scored"
    /\ signals = DefaultSignals
    /\ Len(events) > 0
    /\ weekScores[1].finalScore = 0
    /\ weekScores[2].finalScore > 0

MondayNineToFive(zone) == <<makeEvent(540, 1020, zone)>>

\* C6: for the week of Monday 2025-02-17 whose only event is Monday
\* 09:00-17:00, Monday scores above 35 (standard or quick) and each of the
\* other six days scores 0, exploratory.
C6_MondayWorkdayWeek ==
    (Scored /\ signals = DefaultSignals /\ weekStart = 0
        /\ events = MondayNineToFive(tz)) =>
        /\ weekScores[1].finalScore > 35
        /\ weekScores[1].tier \in {"standard", "quick"}
        /\ \A i \in 2..7 :
               /\ weekScores[i].finalScore = 0
               /\ weekScores[i].tier = "exploratory"

\* that week scored in a zone west of UTC, where 2025-02-17T00:00Z is still
\* Sunday evening on the wall clock
C6_Witness ==
    /\ pc = "scored"
    /\ signals = DefaultSignals
    /\ weekStart = 0
    /\ tz < 0
    /\ events = MondayNineToFive(tz)
    /\ weekScores[1].finalScore = 38

\* the events of a schedule lie inside [from, to] on Monday's wall clock
AllInside(evs, zone, from, to) ==
    \A k \in 1..Len(evs) :
        /\ from <= evs[k].startTime + zone
        /\ evs[k].startTime <= evs[k].endTime
        /\ evs[k].endTime + zone <= to

DurationOf(e) == e.endTime - e.startTime

\* `events` is one event inside 17:00-19:00 and `eventsB` the same-duration
\* event inside 09:00-11:00, 0 < duration <= 2 hours
DinnerVersusMorning ==
    /\ Len(events) = 1
    /\ Len(eventsB) = 1
    /\ AllInside(events, tz, DinnerStart, DinnerEnd)
    /\ AllInside(eventsB, tz, MorningStart, MorningEnd)
    /\ DurationOf(events[1]) = DurationOf(eventsB[1])
    /\ DurationOf(events[1]) \in 1..120

\* the unrounded sum of the four sub-scores
RawScoreOf(result) ==
    RAdd(RAdd(RAdd(result.rawData.committedPts, result.rawData.b2bPts),
              result.rawData.mealPts),
         result.rawData.freeBlockPts)

\* C7 as stated: for every duration 0 < d <= 2 hours, a day whose only event
\* lies inside the dinner window scores strictly higher than a day whose only
\* event is the same-duration event inside 09:00-11:00.
C7_DinnerStrictlyHigher ==
    (pc = "compared" /\ DinnerVersusMorning) =>
        signalResult.score > signalResultB.score

\* C7 amended: the dinner-window day has the strictly higher unrounded score
\* and never the lower score; its (rounded) score is strictly higher when the
\* event lasts at least 8 minutes.
C7_DinnerNeverLowerStrictFromEightMinutes ==
    (pc = "compared" /\ DinnerVersusMorning) =>
        /\ RLt(RawScoreOf(signalResultB), RawScoreOf(signalResult))
        /\ signalResult.score >= signalResultB.score
        /\ DurationOf(events[1]) >= 8 => signalResult.score > signalResultB.score

\* a short event at the end of each window, both days scored, dinner higher
C7_Witness ==
    /\ pc = "compared"
    /\ DinnerVersusMorning
    /\ DurationOf(events[1]) = 8
    /\ events[1].endTime + tz = DinnerEnd
    /\ eventsB[1].endTime + tz = MorningEnd
    /\ signalResult.score = signalResultB.score + 1

\* consecutive pairs, in start-time order, at most 15 minutes apart
ClosePairs(evs) ==
    LET sorted == SortByStart(evs)
    IN  Cardinality({k \in 1..(Len(sorted) - 1) :
            sorted[k + 1].startTime - sorted[k].endTime <= 15})

\* both schedules have the same number of events, committed hours,
\* meal-window overlaps and largest free block
SameOtherFactors ==
    /\ Len(events) = Len(eventsB)
    /\ Len(events) > 0
    /\ signalResult.rawData.totalCommittedHours
           = signalResultB.rawData.totalCommittedHours
    /\ signalResult.rawData.dinnerOverlapHours
           = signalResultB.rawData.dinnerOverlapHours
    /\ signalResult.rawData.lunchOverlapHours
           = signalResultB.rawData.lunchOverlapHours
    /\ signalResult.rawData.largestFreeBlockHours
           = signalResultB.rawData.largestFreeBlockHours

IsBackToBackTriple(evs) ==
    /\ Len(evs) = 3
    /\ \A k \in 1..3 : DurationOf(evs[k]) = 60
    /\ \A k \in 1..2 : evs[k + 1].startTime = evs[k].endTime

IsSpreadTriple(evs) ==
    /\ Len(evs) = 3
    /\ \A k \in 1..3 : DurationOf(evs[k]) = 60
    /\ \A k \in 1..2 : evs[k + 1].startTime >= evs[k].endTime + 60

\* C8: with the number of events, committed hours, meal-window overlap and
\* largest free block equal, the schedule with at least as many consecutive
\* pairs within 15 minutes never scores lower; three 1-hour events back to
\* back score strictly higher than three 1-hour events spread an hour or more
\* apart.
C8_BackToBackMonotone ==
    pc = "compared" =>
        /\ (SameOtherFactors /\ ClosePairs(events) >= ClosePairs(eventsB))
               => signalResult.score >= signalResultB.score
        /\ (IsBackToBackTriple(events) /\ IsSpreadTriple(eventsB))
               => signalResult.score > signalResultB.score

\* equal other factors, one more pair within 15 minutes (one of them exactly
\* 15 minutes apart), and a strictly higher score
C8_Witness ==
    /\ pc = "compared"
    /\ SameOtherFactors
    /\ ClosePairs(events) = ClosePairs(eventsB) + 1
    /\ \E k \in 1..Len(events) : events[k].startTime + tz = 855
    /\ signalResult.score > signalResultB.score

\* index (from 1) of the first day with the lowest finalScore
FirstLeastBusy(scores) ==
    CHOOSE k \in 1..Len(scores) :
        /\ \A i \in 1..Len(scores) : scores[k].finalScore <= scores[i].finalScore
        /\ \A i \in 1..(k - 1) : scores[i].finalScore > scores[k].finalScore

\* C9: with no perishable meal dates every candidate day has freshness 50 and
\* recommendPickupDay returns the day with the lowest finalScore, the earliest
\* such day on ties, with a non-empty reasoning, for any grocery list.
C9_NoPerishablesPicksLeastBusy ==
    (pc = "done" /\ perishableMealDates = <<>> /\ Len(weekScores) > 0) =>
        LET k == FirstLeastBusy(weekScores)
        IN  /\ recommendation.dayIndex = k - 1
            /\ recommendation.day = weekScores[k].date
            /\ recommendation.score
                   = RAdd(Rat(6 * (100 - weekScores[k].finalScore), 10),
                          Rat(4 * 50, 10))
            /\ Len(recommendation.reasoning) > 0
            /\ \A i \in 1..Len(weekScores) :
                   computeFreshnessScore(weekScores[i].date, groceryItems,
                                         perishableMealDates) = RInt(50)

\* groceries but no meal dates; the least busy score occurs twice, after a
\* busier first day, and the earlier of the two is returned
C9_Witness ==
    /\ pc = "done"
    /\ perishableMealDates = <<>>
    /\ Len(groceryItems) > 0
    /\ Len(weekScores) = 3
    /\ weekScores[1].finalScore > weekScores[2].finalScore
    /\ weekScores[2].finalScore = weekScores[3].finalScore
    /\ recommendation.dayIndex = 1

\* 0.6 * (100 - finalScore) + 0.4 * freshnessScore of day i
CombinedOf(i) ==
    RAdd(RMul(Rat(6, 10), RInt(100 - weekScores[i].finalScore)),
         RMul(Rat(4, 10),
              computeFreshnessScore(weekScores[i].date, groceryItems,
                                    perishableMealDates)))

\* C10: recommendPickupDay returns the candidate with the highest combined
\* score 0.6 * (100 - finalScore) + 0.4 * freshnessScore, the one with the
\* smallest index among equals; dayIndex is its position in weekScores, day
\* its date and score its combined score.
C10_HighestCombinedEarliestOnTies ==
    (pc = "done" /\ Len(weekScores) > 0) =>
        LET k == recommendation.dayIndex + 1
        IN  /\ k \in 1..Len(weekScores)
            /\ \A i \in 1..Len(weekScores) : RLe(CombinedOf(i), CombinedOf(k))
            /\ \A i \in 1..(k - 1) : RLt(CombinedOf(i), CombinedOf(k))
            /\ recommendation.day = weekScores[k].date
            /\ recommendation.score = CombinedOf(k)

\* perishable meal dates present, the winner is not the first day and a later
\* day has exactly the same combined score
C10_Witness ==
    /\ pc = "done"
    /\ Len(weekScores) > 0
    /\ Len(perishableMealDates) > 0
    /\ recommendation.dayIndex > 0
    /\ \E i \in (recommendation.dayIndex + 2)..Len(weekScores) :
           CombinedOf(i) = CombinedOf(recommendation.dayIndex + 1)

-----------------------------------------------------------------------------
(* C11..C13: the freshness component of recommendPickupDay                 *)

Recommended == pc = "done" /\ Len(weekScores) > 0

\* the entries whose category looks up as short or medium
IsPerishable(meal) ==
    LET sl == getShelfLife(meal.category)
    IN  "category" \in DOMAIN sl /\ sl.category \in {"short", "medium"}

PerishableDates(meals) ==
    {meals[k].plannedDate : k \in {j \in 1..Len(meals) : IsPerishable(meals[j])}}

\* D: the latest needed-by date among the short or medium entries
LatestPerishableDate(meals) ==
    CHOOSE d \in PerishableDates(meals) : \A e \in PerishableDates(meals) : e <= d

\* C11: with D the latest needed-by date among the short- or medium-category
\* entries, recommendPickupDay never returns a day strictly after D when some
\* day on or before D has a finalScore less than or equal to that later
\* day's finalScore.
C11_NoDayAfterLatestNeededBy ==
    (Recommended /\ PerishableDates(perishableMealDates) # {}) =>
        LET D == LatestPerishableDate(perishableMealDates)
            chosen == weekScores[recommendation.dayIndex + 1]
        IN  recommendation.day > D =>
                ~ \E i \in 1..Len(weekScores) :
                      /\ weekScores[i].date <= D
                      /\ weekScores[i].finalScore <= chosen.finalScore

\* the freshness score inside the returned combined score:
\* score = 0.6 * (100 - finalScore) + 0.4 * freshness
ReturnedFreshness ==
    LET chosen == weekScores[recommendation.dayIndex + 1]
    IN  RDiv(RSub(recommendation.score,
                  RMul(CALENDAR_WEIGHT, RInt(100 - chosen.finalScore))),
             FRESHNESS_WEIGHT)

\* the shortest shelf life among the grocery items that have a category,
\* 30 days when none has one
ShortestShelfDays(items) ==
    LET days == {getShelfLife(items[k].category).minDays : k \in 1..Len(items)}
    IN  IF days = {} THEN 30 ELSE CHOOSE d \in days : \A e \in days : d <= e

\* C12: with perishable constraints, the freshness of a candidate day follows
\* from gapDays = floor((latest short/medium needed-by date - candidate date)
\* / 1 day) and shortestShelfDays: 0 for gapDays < 0, 100 at gapDays = 0
\* falling linearly to 50 at gapDays = shortestShelfDays, and below 50 but
\* never below 0 for gapDays > shortestShelfDays.
C12_FreshnessFromGapAndShortestShelf ==
    (Recommended /\ PerishableDates(perishableMealDates) # {}) =>
        LET D == LatestPerishableDate(perishableMealDates)
            gapDays == (D - recommendation.day) \div MinutesPerDay
            shelf == ShortestShelfDays(groceryItems)
            f == ReturnedFreshness
        IN  /\ gapDays < 0 => f = RInt(0)
            /\ (0 <= gapDays /\ gapDays <= shelf) =>
                   f = RSub(RInt(100), Rat(50 * gapDays, shelf))
            /\ gapDays > shelf => (RLe(RInt(0), f) /\ RLt(f, RInt(50)))

AllLong(meals) ==
    /\ Len(meals) > 0
    /\ \A k \in 1..Len(meals) : getShelfLife(meals[k].category).category = "long"

\* C13: only short or medium entries act as freshness constraints: when every
\* entry has a long category, the returned day has the neutral freshness 50
\* and is the day returned for an empty perishableMealDates list.
C13_LongCategoriesAreNeutral ==
    (Recommended /\ AllLong(perishableMealDates)) =>
        /\ ReturnedFreshness = RInt(NeutralFreshness)
        /\ recommendation.dayIndex = FirstLeastBusy(weekScores) - 1

-----------------------------------------------------------------------------
-----------------------------------------------------------------------------
\* C15: getShelfLife returns the table entry for a string that is exactly
\* (case-sensitively) a table key, 'Seafood' giving {category: 'short',
\* minDays: 1, maxDays: 2}, and for every other string whatsoever the default
\* entry {category: 'medium', minDays: 4, maxDays: 6}, without failing.
C15_TableEntryOrDefault ==
    pc = "looked up" =>
        /\ shelfCategory = "Seafood" =>
               shelfEntry = [category |-> "short", minDays |-> 1, maxDays |-> 2]
        /\ shelfCategory \in DOMAIN SHELF_LIFE =>
               shelfEntry = SHELF_LIFE[shelfCategory]
        /\ shelfCategory \notin DOMAIN SHELF_LIFE =>
               shelfEntry = [category |-> "medium", minDays |-> 4, maxDays |-> 6]

-----------------------------------------------------------------------------
SavedOk == pc = "saved" /\ "success" \in DOMAIN saveResult

\* C16: the complexity map saveWeekScoresAndGenerate hands to recipe
\* generation has, for each of the 7 days, the user's override for that day
\* name when one exists and otherwise the scored tier; the persisted
\* day_scores keep the scored tier and finalScore of every day.
C16_OverridesInMapScoredTiersPersisted ==
    SavedOk =>
        /\ DOMAIN saveResult.complexityMap = {dayNames[i] : i \in 1..DaysPerWeek}
        /\ Len(weekScoreRow.day_scores) = DaysPerWeek
        /\ \A i \in 1..DaysPerWeek :
               /\ saveResult.complexityMap[dayNames[i]]
                      = IF dayNames[i] \in DOMAIN overrides
                        THEN overrides[dayNames[i]]
                        ELSE weekScores[i].tier
               /\ weekScoreRow.day_scores[i].tier = weekScores[i].tier
               /\ weekScoreRow.day_scores[i].finalScore = weekScores[i].finalScore
               /\ weekScoreRow.day_scores[i].date = weekScores[i].date

\* a week with a quick Monday, a standard Tuesday and free days, saved with
\* Monday overridden to exploratory and Wednesday to quick
C16_Witness ==
    /\ SavedOk
    /\ weekScores[1].tier = "quick"
    /\ weekScores[2].tier = "standard"
    /\ weekScores[3].tier = "exploratory"
    /\ DOMAIN overrides = {"Monday", "Wednesday"}
    /\ overrides["Monday"] = "exploratory"
    /\ overrides["Wednesday"] = "quick"
    /\ saveResult.complexityMap["Monday"] = "exploratory"
    /\ saveResult.complexityMap["Tuesday"] = "standard"
    /\ weekScoreRow.day_scores[1].tier = "quick"

-----------------------------------------------------------------------------
Count(xs, x) == Cardinality({i \in 1..Len(xs) : xs[i] = x})

SumOver(f, S) ==
    LET RECURSIVE Sum(_)
        Sum(T) == IF T = {} THEN 0
                  ELSE LET t == CHOOSE u \in T : TRUE IN f[t] + Sum(T \ {t})
    IN  Sum(S)

\* the tasks whose authenticate and fetchEvents both succeeded
Succeeded == {i \in 1..Len(tasks) : tasks[i].authenticated /\ tasks[i].fetched}

CalendarContents ==
    UNION {{c[k] : k \in 1..Len(c)} : c \in GoogleCalendars \cup AppleCalendars}

\* C17: for a signed-in user with connected providers whose fetches run
\* concurrently, fetchAllEvents returns the events of every provider whose
\* authenticate and fetchEvents succeeded, and only those, sorted by ascending
\* start time, whichever other providers failed and in whatever order the
\* fetches completed; it returns and does not fail.
C17_EventsOfSucceededProvidersSorted ==
    (pc = "returned" /\ Len(sources) > 0) =>
        /\ allEvents \in Seq(CalendarContents)
        /\ \A k \in 1..(Len(allEvents) - 1) :
               allEvents[k].startTime <= allEvents[k + 1].startTime
        /\ \A e \in CalendarContents :
               Count(allEvents, e)
                   = SumOver([i \in Succeeded |-> Count(providerEvents[sources[i]], e)],
                             Succeeded)

\* two sources: the first settles last and is rejected after authenticating,
\* the second returns its events out of order
C17_Witness ==
    /\ pc = "returned"
    /\ sources = <<"google", "apple">>
    /\ settleOrder = <<2, 1>>
    /\ tasks[1].authenticated /\ ~tasks[1].fetched
    /\ Succeeded = {2}
    /\ Len(providerEvents["google"]) = 2
    /\ Len(allEvents) = 2
    /\ allEvents[1].id = "a3"
    /\ allEvents[2].id = "a2"

-----------------------------------------------------------------------------
\* the events that share no positive-length time with the day of `date`:
\* they end at or before its 00:00:00 or start after its 23:59:59
NoneOnDay(evs, date, zone) ==
    LET b == localDayBounds(date, zone)
    IN  \A k \in 1..Len(evs) :
            evs[k].endTime <= b.dayStart \/ evs[k].startTime > b.dayEnd

\* C18: when no event shares any positive-length time with the target day's
\* local 00:00:00-23:59:59 window, TimeBlockSignal.compute returns the
\* free-day result: score 0, reasoning 'Completely free day' and
\* totalCommittedHours 0.
C18_NoOverlapIsFreeDay ==
    (pc = "computed" /\ NoneOnDay(events, weekStart, tz)) =>
        /\ signalResult.score = 0
        /\ signalResult.reasoning = <<"Completely free day">>
        /\ signalResult.rawData.totalCommittedHours = RInt(0)

-----------------------------------------------------------------------------
WellFormed(evs) == \A k \in 1..Len(evs) : evs[k].startTime < evs[k].endTime

\* the bounds of the i-th day scoreWeek scores
DayBoundsOf(i) == localDayBounds(addDays(weekStart, i - 1), tz)

\* the hours of the events that fall inside the i-th day
HoursInsideDay(evs, i) ==
    LET dayStart == DayBoundsOf(i).dayStart
    IN  SumSeq([k \in 1..Len(evs) |->
                   hoursOverlap(evs[k].startTime, evs[k].endTime,
                                dayStart, dayStart + MinutesPerDay)])

\* the event has time on both sides of the midnight that ends the i-th day
SpansMidnightAfter(e, i) ==
    LET midnight == DayBoundsOf(i).dayStart + MinutesPerDay
    IN  e.startTime < midnight /\ midnight < e.endTime

\* C19: an event that spans midnight is included in the scoring of both days
\* it overlaps, and on each of those days the committed hours it contributes
\* are the hours of the event inside that day, not its full duration.
C19_MidnightEventCountsOverlapOnly ==
    (Scored /\ signals = DefaultSignals /\ WellFormed(events)) =>
        \A i \in 1..(DaysPerWeek - 1) :
            (\E k \in 1..Len(events) : SpansMidnightAfter(events[k], i)) =>
                \A d \in {i, i + 1} :
                    LET result == weekScores[d].signalBreakdown[1]
                    IN  /\ result.reasoning # <<"Completely free day">>
                        /\ result.rawData.totalCommittedHours
                               = HoursInsideDay(events, d)

-----------------------------------------------------------------------------
\* C20: for every non-empty set of events on a day, every free block that
\* TimeBlockSignal.compute records lies inside the 07:00-23:00 waking window,
\* so largestFreeBlockHours is between 0 and the 16 hours of that window,
\* also when events start before 07:00 or after 23:00.  Stated for events
\* that end after they start.
C20_LargestFreeBlockWithinWakingWindow ==
    (/\ pc = "computed"
     /\ WellFormed(events)
     /\ Len(eventsOnDate(events, weekStart, tz)) > 0) =>
        LET largest == signalResult.rawData.largestFreeBlockHours
        IN  /\ RLe(RInt(0), largest)
            /\ RLe(largest, RInt(WakingEndHour - WakingStartHour))

-----------------------------------------------------------------------------
EndNotBeforeStart(evs) == \A k \in 1..Len(evs) : evs[k].startTime <= evs[k].endTime

\* a number lies in [lo, hi] and is the value of a division by a non-zero
\* denominator
Within(x, lo, hi) == x[2] > 0 /\ RLe(RInt(lo), x) /\ RLe(x, RInt(hi))

\* C21: for every list of events with end time not before start time, the
\* four sub-scores of TimeBlockSignal.compute stay within their caps
\* (committed hours [0,40], back-to-back [0,25], meal-window conflict [0,20],
\* largest free block [0,15]), no division has a zero denominator, and the
\* returned score is the rounded sum clamped into [0,100].
C21_SubScoresCappedScoreClamped ==
    (/\ pc = "computed"
     /\ EndNotBeforeStart(events)
     /\ Len(eventsOnDate(events, weekStart, tz)) > 0) =>
        LET raw == signalResult.rawData
            sum == RAdd(RAdd(RAdd(raw.committedPts, raw.b2bPts), raw.mealPts),
                        raw.freeBlockPts)
        IN  /\ Within(raw.committedPts, 0, MAX_COMMITTED_HOURS_PTS)
            /\ Within(raw.b2bPts, 0, MAX_BACK_TO_BACK_PTS)
            /\ Within(raw.mealPts, 0, MAX_MEAL_CONFLICT_PTS)
            /\ Within(raw.freeBlockPts, 0, MAX_FREE_BLOCK_PTS)
            /\ IntMax(Len(eventsOnDate(events, weekStart, tz)) - 1, 1) >= 1
            /\ signalResult.score = MathRound(RMin(RInt(100), RMax(RInt(0), sum)))
            /\ signalResult.score \in 0..100

\* two overlapping eight-hour events: 16 committed hours exceed the 14-hour
\* budget and the committed points sit at their cap
C21_Witness ==
    /\ pc = "computed"
    /\ EndNotBeforeStart(events)
    /\ Len(eventsOnDate(events, weekStart, tz)) = 2
    /\ RLt(RInt(WAKING_HOURS), signalResult.rawData.totalCommittedHours)
    /\ signalResult.rawData.committedPts = RInt(MAX_COMMITTED_HOURS_PTS)
    /\ signalResult.rawData.b2bPts = RInt(MAX_BACK_TO_BACK_PTS)

-----------------------------------------------------------------------------
\* a date-only value: UTC midnight of a calendar day
DateOnly(date) == date % MinutesPerDay = 0

\* the event's wall-clock interval meets 00:00-23:59 of calendar day
\* `day` (days counted from 2025-02-17) in the process zone
OverlapsCalendarDay(e, day) ==
    /\ e.startTime + tz <= day * MinutesPerDay + (MinutesPerDay - 1)
    /\ e.endTime + tz >= day * MinutesPerDay

DurationsOnCalendarDay(evs, day) ==
    LET OnDay(e) == OverlapsCalendarDay(e, day)
        sel == SelectSeq(evs, OnDay)
    IN  SumSeq([k \in 1..Len(sel) |-> Hours(sel[k].endTime - sel[k].startTime)])

\* the result is the one of exactly the events that overlap calendar day `day`
ScoredAgainst(result, evs, day) ==
    /\ (result.reasoning = <<"Completely free day">>)
           <=> ~ \E k \in 1..Len(evs) : OverlapsCalendarDay(evs[k], day)
    /\ result.rawData.totalCommittedHours = DurationsOnCalendarDay(evs, day)

-----------------------------------------------------------------------------
-----------------------------------------------------------------------------
\* C24: the event list that fetchAllEvents delivers to the scoring engine is
\* deduplicated: it never contains two entries for the same event (the same
\* id).
C24_DeliveredEventsDeduplicated ==
    (pc = "returned" /\ allEvents \in Seq(CalendarContents)) =>
        \A i, j \in 1..Len(allEvents) :
            allEvents[i].id = allEvents[j].id => i = j

-----------------------------------------------------------------------------
\* 00:00:00 local of the day compute scores
DayBase == localDayBounds(weekStart, tz).dayStart

\* C25: a day whose only event lasts at most one hour, wherever it is placed
\* in the day, gets a TimeBlockSignal score below 36, the 'exploratory' tier.
C25_ShortEventStaysExploratory ==
    (/\ pc = "computed"
     /\ Len(events) = 1
     /\ events[1].endTime - events[1].startTime \in 0..60) =>
        /\ signalResult.score < 36
        /\ tierFromScore(signalResult.score) = "exploratory"

\* a one-hour event at 17:00, inside the dinner-prep window
C25_Witness ==
    /\ pc = "computed"
    /\ events = <<eventOnDay(1020, 1080, weekStart, tz)>>
    /\ signalResult.score > 0
    /\ signalResult.rawData.dinnerOverlapHours = RInt(1)

-----------------------------------------------------------------------------
\* every minute of the day's 07:00-23:00 lies inside one of the events
WakingWindowCovered(evs) ==
    \A m \in 420..1379 :
        \E k \in 1..Len(evs) :
            /\ evs[k].startTime <= DayBase + m
            /\ evs[k].endTime >= DayBase + m + 1

\* C26: a day whose 07:00-23:00 waking window is completely covered by
\* events gets a TimeBlockSignal score above 65, the 'quick' tier; the
\* six-meeting schedule 08-10, 10-12, 12:30-14, 14-16, 16-18, 19-20 also
\* scores above 65.
C26_CoveredWindowAndPackedDayAreQuick ==
    (/\ pc = "computed"
     /\ WellFormed(events)
     /\ WakingWindowCovered(events) \/ events = PackedDay(weekStart, tz)) =>
        /\ signalResult.score > 65
        /\ tierFromScore(signalResult.score) = "quick"

\* the window is filled by one event and a late event follows it, so the
\* largest free block is not zero
C26_Witness ==
    /\ pc = "computed"
    /\ Len(events) = 2
    /\ WakingWindowCovered(events)
    /\ signalResult.rawData.largestFreeBlockHours # RInt(0)
    /\ signalResult.score > 65

-----------------------------------------------------------------------------
\* the tier the preview shows for the i-th day, and the tier the engine gave
EffectiveTier(i) == getEffectiveTier(previewDayScores(weekScores), overrides, i)
SuggestedTier(i) == previewDayScores(weekScores)[i].tier

\* quick -> standard -> exploratory -> quick
NextInCycle(tier) ==
    CASE tier = "quick" -> "standard"
      [] tier = "standard" -> "exploratory"
      [] tier = "exploratory" -> "quick"

\* C27: in the week preview, after any sequence of day clicks and resets, a
\* day has an entry in the overrides map if and only if its effective tier
\* differs from the system-suggested tier; a click advances one day's
\* effective tier one step in the cycle quick -> standard -> exploratory ->
\* quick and leaves the other days alone (so three clicks on a day restore
\* the suggested tier with no override), and a reset removes every override.
C27_OverridesAreExactlyTheChangedDays ==
    [][(pc = "preview" /\ pc' = "preview") =>
          /\ DOMAIN overrides' \subseteq {dayNames[i] : i \in 1..Len(weekScores)}
          /\ \A i \in 1..Len(weekScores) :
                 (dayNames[i] \in DOMAIN overrides') <=> (EffectiveTier(i)' # SuggestedTier(i)')
          /\ \/ DOMAIN overrides' = {}
             \/ \E i \in 1..Len(weekScores) :
                    /\ EffectiveTier(i)' = NextInCycle(EffectiveTier(i))
                    /\ \A j \in 1..Len(weekScores) \ {i} :
                           EffectiveTier(j)' = EffectiveTier(j)]_vars

\* two days are overridden, one of them two steps away from its suggested
\* tier: its next click removes the override
C27_Witness ==
    /\ pc = "preview"
    /\ Cardinality(DOMAIN overrides) = 2
    /\ \E i \in 1..Len(weekScores) :
           /\ dayNames[i] \in DOMAIN overrides
           /\ NextInCycle(EffectiveTier(i)) = SuggestedTier(i)

-----------------------------------------------------------------------------
\* `eventsB` is `events` with one more event, which ends no earlier than it
\* starts, and both lists have been scored
OneEventAdded ==
    /\ pc = "compared"
    /\ Len(eventsB) = Len(events) + 1
    /\ SubSeq(eventsB, 1, Len(events)) = events
    /\ DurationOf(eventsB[Len(eventsB)]) >= 0

\* a sub-score of a result; the free-day result carries none and scores 0
PointsOf(result, name) ==
    IF name \in DOMAIN result.rawData THEN result.rawData[name] ELSE RInt(0)

\* C28 as stated: adding one more event to a day's event list (all other
\* events unchanged) never lowers that day's TimeBlockSignal score.
C28_AddedEventNeverLowersScore ==
    OneEventAdded => signalResultB.score >= signalResult.score

\* C28 amended: adding one more event never lowers the day's committed-hours
\* points or its meal-conflict points; the score itself can drop, since the
\* back-to-back points are the share of consecutive pairs that are close.
C28_AddedEventNeverLowersCommittedOrMealPts ==
    OneEventAdded =>
        /\ RLe(PointsOf(signalResult, "committedPts"),
               PointsOf(signalResultB, "committedPts"))
        /\ RLe(PointsOf(signalResult, "mealPts"), PointsOf(signalResultB, "mealPts"))

\* two meetings back to back and a third added in the evening: more committed
\* hours, a lower score
C28_Witness ==
    /\ OneEventAdded
    /\ Len(events) = 2
    /\ signalResult.rawData.backToBackCount = 1
    /\ signalResultB.rawData.backToBackCount = 1
    /\ RLt(PointsOf(signalResult, "committedPts"),
           PointsOf(signalResultB, "committedPts"))
    /\ signalResultB.score < signalResult.score

-----------------------------------------------------------------------------
\* C29: the largestFreeBlockHours reported for a fully free day is the
\* maximum possible: a day with events never reports a larger
\* largestFreeBlockHours than the same day with no events.
C29_FreeDayReportsLargestFreeBlock ==
    (pc = "compared" /\ WellFormed(eventsB)) =>
        RLe(signalResultB.rawData.largestFreeBlockHours,
            TimeBlockCompute(<<>>, weekStart, tz).rawData.largestFreeBlockHours)

-----------------------------------------------------------------------------
\* the i-th callback got past the nonce check
PassedNonceCheck(i) ==
    callbacks[i].stage \in {"login", "token_failed", "store_failed", "stored"}

\* C30: the callback stores tokens in calendar_connections only when the
\* request's state equals the nonce cookie set by the initiation route and a
\* user is authenticated, and always for that user; every callback that
\* carries a code and a state deletes the nonce cookie before checking it;
\* and the same state value is not accepted by a second callback.
C30_NonceCheckedAndSingleUse ==
    /\ \A i \in 1..Len(callbacks) :
           callbacks[i].stage = "stored" =>
               /\ callbacks[i].state = callbacks[i].cookie
               /\ callbacks[i].cookie \in IssuedNonces
               /\ callbacks[i].user \in Users
               /\ callbacks[i].storedFor = callbacks[i].user
               /\ callbacks[i].user \in DOMAIN connections
    /\ \A i \in 1..Len(callbacks) :
           (/\ callbacks[i].stage # "inflight"
            /\ callbacks[i].code # None
            /\ callbacks[i].state # None) => callbacks[i].deletesCookie
    /\ \A i, j \in 1..Len(callbacks) :
           (i # j /\ PassedNonceCheck(i) /\ PassedNonceCheck(j)) =>
               callbacks[i].state # callbacks[j].state

====
